---- MODULE Spec2Model ----
(***************************************************************************)
(* A model of n8nplus-back: the Connection Graph Validator embedded in the *)
(* create_workflow tool, the update-merge of N8nService.updateWorkflow,    *)
(* the node index search, and the orchestration loop of AiAgentService     *)
(* (runAgent / runAgentStreaming) with its shared failure counter.         *)
(***************************************************************************)
EXTENDS Integers, Sequences, FiniteSets, TLC

(***************************************************************************)
(* Bounds of the model.                                                    *)
(***************************************************************************)
\* A draft carries at most this many connection targets over all its sources.
MaxEdges == 2

\* The value standing for a field a JavaScript object does not carry.
Absent == "__absent__"

(***************************************************************************)
(* Node type identifiers.  The tool only ever asks whether a type contains *)
(* one of a fixed list of substrings (String.prototype.includes), so each  *)
(* representative identifier is listed with the tested substrings it       *)
(* contains.  Matching is case-sensitive: "toolCode" has no "Tool".        *)
(***************************************************************************)
TypeSubstrings ==
  [ t \in { "n8n-nodes-base.manualTrigger", "n8n-nodes-base.webhook",
            "n8n-nodes-base.gmail",
            "@n8n/n8n-nodes-langchain.embeddingsOpenAi",
            "@n8n/n8n-nodes-langchain.documentDefaultDataLoader",
            "@n8n/n8n-nodes-langchain.textSplitterRecursiveCharacterTextSplitter",
            "@n8n/n8n-nodes-langchain.memoryBufferWindow",
            "@n8n/n8n-nodes-langchain.mcpClientTool",
            "@n8n/n8n-nodes-langchain.toolCode",
            "@n8n/n8n-nodes-langchain.vectorStorePinecone",
            "gmail", Absent } |->
    CASE t = "n8n-nodes-base.manualTrigger" -> {".", "Trigger"}
      [] t = "n8n-nodes-base.webhook" -> {".", "webhook"}
      [] t = "n8n-nodes-base.gmail" -> {"."}
      [] t = "@n8n/n8n-nodes-langchain.embeddingsOpenAi" ->
           {".", "langchain", "embeddings"}
      [] t = "@n8n/n8n-nodes-langchain.documentDefaultDataLoader" ->
           {".", "langchain", "DataLoader", "documentDefault"}
      [] t = "@n8n/n8n-nodes-langchain.textSplitterRecursiveCharacterTextSplitter" ->
           {".", "langchain", "textSplitter"}
      [] t = "@n8n/n8n-nodes-langchain.memoryBufferWindow" ->
           {".", "langchain", "memory"}
      [] t = "@n8n/n8n-nodes-langchain.mcpClientTool" ->
           {".", "langchain", "Tool"}
      [] t = "@n8n/n8n-nodes-langchain.toolCode" -> {".", "langchain"}
      [] t = "@n8n/n8n-nodes-langchain.vectorStorePinecone" -> {".", "langchain"}
      [] OTHER -> {} ]

\* nodeType.includes(sub)
includes(nodeType, sub) == sub \in TypeSubstrings[nodeType]

(***************************************************************************)
(* Workflow drafts.  A draft is the argument of create_workflow: the node  *)
(* list and the connections object.  The tool reads the connections object *)
(* only through Object.entries: which source keys it has (keys) and which  *)
(* targets sit under a source and a connection type (edges); a key whose   *)
(* value has no well-formed target is a key with no edge.                  *)
(***************************************************************************)
Names == {"T", "A", "B"}

NameOrder == <<"T", "A", "B">>

Kinds == {"main", "ai_embedding"}

\* The types a node of each name may carry in the enumerated drafts.
TypeChoices ==
  [ n \in Names |->
    CASE n = "T" -> {"n8n-nodes-base.manualTrigger", "n8n-nodes-base.gmail"}
      [] n = "A" -> {"n8n-nodes-base.gmail",
                     "@n8n/n8n-nodes-langchain.embeddingsOpenAi",
                     "@n8n/n8n-nodes-langchain.documentDefaultDataLoader",
                     "@n8n/n8n-nodes-langchain.textSplitterRecursiveCharacterTextSplitter",
                     "@n8n/n8n-nodes-langchain.memoryBufferWindow",
                     "@n8n/n8n-nodes-langchain.mcpClientTool"}
      [] OTHER -> {"n8n-nodes-base.gmail", "n8n-nodes-base.webhook"} ]

EdgeUniverse == [src : Names, kind : Kinds, node : Names]

RECURSIVE SubsetsUpTo(_, _)
SubsetsUpTo(S, k) ==
  IF k = 0 \/ S = {} THEN {{}}
  ELSE LET x == CHOOSE y \in S : TRUE
           rest == SubsetsUpTo(S \ {x}, k)
           with == { r \cup {x} : r \in SubsetsUpTo(S \ {x}, k - 1) }
       IN rest \cup with

\* The node list of a draft whose nodes are the names in present, typed by typing.
NodeList(present, typing) ==
  LET chosen == SelectSeq(NameOrder, LAMBDA n : n \in present)
  IN [ i \in 1..Len(chosen) |-> [name |-> chosen[i], type |-> typing[chosen[i]]] ]

Typings == { f \in [Names -> UNION { TypeChoices[n] : n \in Names }] :
               \A n \in Names : f[n] \in TypeChoices[n] }

NodeLists == { NodeList(present, typing) : present \in SUBSET Names, typing \in Typings }

ConnectionMaps ==
  { [keys |-> ks, edges |-> es] :
      ks \in SUBSET Names,
      es \in SubsetsUpTo(EdgeUniverse, MaxEdges) } 

Drafts ==
  { [nodes |-> nl, keys |-> c.keys \cup { e.src : e \in c.edges }, edges |-> c.edges] :
      nl \in NodeLists, c \in ConnectionMaps }

(***************************************************************************)
(* The Connection Graph Validator: the checks create_workflow runs on a    *)
(* draft before it contacts the runtime.                                   *)
(***************************************************************************)
\* Array.prototype.flatMap: the concatenation of Op over seq, in order.
FlatMap(seq, Op(_)) ==
  LET F[i \in 0..Len(seq)] == IF i = 0 THEN <<>> ELSE F[i - 1] \o Op(seq[i])
  IN F[Len(seq)]

nodeNames(d) == [ i \in 1..Len(d.nodes) |-> d.nodes[i].name ]

\* new Map(nodes.map(n => [n.name, n.type])).get(name) || ''
nodeTypes(d, name) ==
  LET at == { i \in 1..Len(d.nodes) : d.nodes[i].name = name }
  IN IF at = {} THEN Absent
     ELSE d.nodes[CHOOSE i \in at : \A j \in at : j <= i].type

\* The source keys of the connections object.
connectedAsSource(d) == d.keys

\* The targets named under any source and connection type.
connectedAsTarget(d) == { e.node : e \in d.edges }

isTriggerType(t) ==
  includes(t, "Trigger") \/ includes(t, "trigger") \/ includes(t, "webhook")

isLangchainSubType(t) ==
  /\ ~isTriggerType(t)
  /\ includes(t, "langchain")
  /\ \/ includes(t, "embeddings") \/ includes(t, "DataLoader")
     \/ includes(t, "textSplitter") \/ includes(t, "memory") \/ includes(t, "Tool")

isRegularType(t) == ~isTriggerType(t) /\ ~isLangchainSubType(t)

NamesOfType(d, Test(_)) ==
  FlatMap(d.nodes, LAMBDA n : IF Test(n.type) THEN <<n.name>> ELSE <<>>)

triggerNodes(d) == NamesOfType(d, isTriggerType)

langchainSubNodes(d) == NamesOfType(d, isLangchainSubType)

regularNodes(d) == NamesOfType(d, isRegularType)

Range(seq) == { seq[i] : i \in 1..Len(seq) }

Defect(class, names) == [class |-> class, names |-> names]

\* 1. Check that triggers have outgoing connections
TriggerErrors(d) ==
  FlatMap(triggerNodes(d), LAMBDA t :
    IF t \notin connectedAsSource(d)
    THEN <<Defect("trigger_no_outgoing", <<t>>)>> ELSE <<>>)

couldBeFirstAfterTrigger(d, nodeName) ==
  \E t \in Range(triggerNodes(d)) :
    /\ t \in d.keys
    /\ \E e \in d.edges : e.src = t /\ e.node = nodeName

\* RegularNodeErrors as it would be if a regular node also needed an outgoing edge.
RegularNodeErrors_RequireOutgoing(d, nodeName) ==
  LET hasIncoming == nodeName \in connectedAsTarget(d)
      hasOutgoing == nodeName \in connectedAsSource(d)
  IN IF ~hasIncoming /\ ~hasOutgoing
     THEN <<Defect("disconnected", <<nodeName>>)>>
     ELSE IF ~hasIncoming /\ ~couldBeFirstAfterTrigger(d, nodeName)
     THEN <<Defect("no_incoming", <<nodeName>>)>>
     ELSE IF ~hasOutgoing
     THEN <<Defect("no_outgoing", <<nodeName>>)>>
     ELSE <<>>

\* 2. Check that regular nodes are connected (either as source or target)
RegularNodeErrors(d, nodeName) ==
  LET hasIncoming == nodeName \in connectedAsTarget(d)
      hasOutgoing == nodeName \in connectedAsSource(d)
  IN IF ~hasIncoming /\ ~hasOutgoing
     THEN <<Defect("disconnected", <<nodeName>>)>>
     ELSE IF ~hasIncoming /\ ~couldBeFirstAfterTrigger(d, nodeName)
     THEN <<Defect("no_incoming", <<nodeName>>)>>
     ELSE <<>>

RegularErrors(d) == FlatMap(regularNodes(d), LAMBDA n : RegularNodeErrors(d, n))

\* 3. Check LangChain sub-nodes have their special ai_* connections
SubNodeErrors(d) ==
  FlatMap(langchainSubNodes(d), LAMBDA n :
    LET nodeType == nodeTypes(d, n)
    IN IF n \in connectedAsSource(d) THEN <<>>
       ELSE IF includes(nodeType, "embeddings")
       THEN <<Defect("needs_ai_embedding", <<n>>)>>
       ELSE IF includes(nodeType, "DataLoader") \/ includes(nodeType, "documentDefault")
       THEN <<Defect("needs_ai_document", <<n>>)>>
       ELSE IF includes(nodeType, "textSplitter")
       THEN <<Defect("needs_ai_textSplitter", <<n>>)>>
       ELSE IF includes(nodeType, "memory")
       THEN <<Defect("needs_ai_memory", <<n>>)>>
       ELSE <<>>)

\* The breadth-first traversal from the triggers over edges of any type.
RECURSIVE Traverse(_, _, _)
Traverse(d, queue, visited) ==
  IF queue = {} THEN visited
  ELSE LET seen == visited \cup queue
           next == { e.node : e \in { x \in d.edges : x.src \in queue } } \ seen
       IN Traverse(d, next, seen)

visitedFromTriggers(d) == Traverse(d, Range(triggerNodes(d)), {})

\* 4. Validate flow continuity, only when nothing was reported so far
ReachabilityErrors(d, errorsSoFar) ==
  IF Len(triggerNodes(d)) > 0 /\ Len(errorsSoFar) = 0
  THEN LET visited == visitedFromTriggers(d)
           unreachableNodes == SelectSeq(regularNodes(d), LAMBDA n : n \notin visited)
       IN IF Len(unreachableNodes) > 0
          THEN <<Defect("unreachable", unreachableNodes)>>
          ELSE <<>>
  ELSE <<>>

\* The errors array of create_workflow at the point it decides to reject.
ValidateDraft(d) ==
  LET firstThree == TriggerErrors(d) \o RegularErrors(d) \o SubNodeErrors(d)
  IN firstThree \o ReachabilityErrors(d, firstThree)

\* The type check that precedes validation: the first node whose type is
\* missing or has no '.', or Absent when every type passes.
FirstInvalidType(d) ==
  LET bad == { i \in 1..Len(d.nodes) : ~includes(d.nodes[i].type, ".") }
  IN IF bad = {} THEN Absent
     ELSE d.nodes[CHOOSE i \in bad : \A j \in bad : i <= j].name

(***************************************************************************)
(* The update-merge of N8nService.updateWorkflow.  A JavaScript object is  *)
(* a record whose missing fields hold Absent; a parameters object is a     *)
(* function from its keys to their values.                                 *)
(***************************************************************************)
\* updates.nodes carries at most this many proposed nodes.
MaxUpdateNodes == 2

UUID1 == "1f0e8a52-7c7b-4d8e-9b1a-3c5d7e9f0a1b"

UUID2 == "2A6B9C3D-0E1F-4A2B-8C3D-4E5F6A7B8C9D"

UUID3 == "3c4d5e6f-1a2b-4c3d-9e4f-5a6b7c8d9e0f"

\* The identifiers generateUUID returns, in the order it is called.
GeneratedUUIDs ==
  << "a0000000-0000-4000-8000-000000000001",
     "a0000000-0000-4000-8000-000000000002",
     "a0000000-0000-4000-8000-000000000003",
     "a0000000-0000-4000-8000-000000000004" >>

\* The strings of the model that match
\* /^[0-9a-f]{8}-[0-9a-f]{4}-[0-9a-f]{4}-[0-9a-f]{4}-[0-9a-f]{12}$/i
MatchesUuidRegex == {UUID1, UUID2, UUID3} \cup Range(GeneratedUUIDs)

\* if (!str) return false; return uuidRegex.test(str)
isValidUUID(str) == str # "" /\ str \in MatchesUuidRegex

\* generateUUID(), called for the k-th time in one merge.
generateUUID(k) == GeneratedUUIDs[k]

\* obj has the field f (obj.f is not undefined).
Has(obj, f) == f \in DOMAIN obj

\* JavaScript falsiness of a present value of field f: the empty string for
\* the string fields, 0 for the number field; objects and arrays are truthy.
IsFalsy(f, v) ==
  CASE f \in {"name", "id", "type"} -> v = ""
    [] f = "typeVersion" -> v = 0
    [] OTHER -> FALSE

\* Whether obj.f is truthy.
Truthy(obj, f) == Has(obj, f) /\ ~IsFalsy(f, obj[f])

EmptyObject == [k \in {} |-> ""]

\* { ...a, ...b } on parameter objects
Spread(a, b) ==
  [k \in (DOMAIN a) \cup (DOMAIN b) |-> IF k \in DOMAIN b THEN b[k] ELSE a[k]]

\* obj.f || {} for an object-valued field
ObjectOrEmpty(obj, f) == IF Truthy(obj, f) THEN obj[f] ELSE EmptyObject

ReadOnlyFields == {"id", "active", "createdAt", "updatedAt", "staticData", "shared", "tags"}

NodeFields == {"name", "id", "type", "typeVersion", "position", "parameters", "credentials"}

\* STEP 2: the rest-destructuring that drops the read-only fields.
cleanUpdates(updates) == [f \in (DOMAIN updates) \ ReadOnlyFields |-> updates[f]]

\* currentWorkflow.nodes.find(n => n.name === agentNode.name): its index, or 0.
findOriginal(currentNodes, agentNode) ==
  LET at == { i \in 1..Len(currentNodes) :
                Has(agentNode, "name") /\ currentNodes[i].name = agentNode.name }
  IN IF at = {} THEN 0 ELSE CHOOSE i \in at : \A j \in at : i <= j

isValidId(node) == Has(node, "id") /\ isValidUUID(node.id)

\* Whether mapping agentNode calls generateUUID.
NeedsNewId(currentNodes, agentNode) ==
  LET o == findOriginal(currentNodes, agentNode)
  IN IF o # 0 THEN ~isValidId(currentNodes[o]) ELSE ~isValidId(agentNode)

\* obj with field f set to v.
WithField(obj, f, v) == [g \in (DOMAIN obj) \cup {f} |-> IF g = f THEN v ELSE obj[g]]

\* The object literal { ...originalNode, id, parameters, position, type,
\* typeVersion } where the last three are agentNode.f || originalNode.f; a
\* field whose value is undefined is left out.
MergedObject(originalNode, agentNode, nodeId) ==
  LET overridable == {"position", "type", "typeVersion"}
      present == { f \in NodeFields :
                     \/ f \in {"id", "parameters"}
                     \/ Has(originalNode, f)
                     \/ f \in overridable /\ Truthy(agentNode, f) }
  IN [ f \in present |->
         CASE f = "id" -> nodeId
           [] f = "parameters" ->
                Spread(ObjectOrEmpty(originalNode, "parameters"),
                       ObjectOrEmpty(agentNode, "parameters"))
           [] f \in overridable ->
                IF Truthy(agentNode, f) THEN agentNode[f] ELSE originalNode[f]
           [] OTHER -> originalNode[f] ]

\* MergeNode as it would be if the proposal's identifier and credentials won.
MergeNode_SpreadAgent(currentNodes, agentNode, k) ==
  LET o == findOriginal(currentNodes, agentNode)
  IN IF o # 0
     THEN LET originalNode == currentNodes[o]
              nodeId == IF isValidId(originalNode) THEN originalNode.id
                        ELSE generateUUID(k)
              merged == MergedObject(originalNode, agentNode, nodeId)
              withId == IF Truthy(agentNode, "id")
                        THEN WithField(merged, "id", agentNode.id) ELSE merged
          IN IF Has(agentNode, "credentials")
             THEN WithField(withId, "credentials", agentNode.credentials)
             ELSE withId
     ELSE IF ~isValidId(agentNode)
     THEN WithField(agentNode, "id", generateUUID(k))
     ELSE agentNode

\* MergeNode as it would be if a matched node always kept the identifier it
\* has, well-formed or not.
MergeNode_KeepOriginalId(currentNodes, agentNode, k) ==
  LET o == findOriginal(currentNodes, agentNode)
  IN IF o # 0
     THEN LET originalNode == currentNodes[o]
              nodeId == IF Has(originalNode, "id") THEN originalNode.id
                        ELSE generateUUID(k)
          IN MergedObject(originalNode, agentNode, nodeId)
     ELSE IF ~isValidId(agentNode)
     THEN WithField(agentNode, "id", generateUUID(k))
     ELSE agentNode

\* MergeNode as it would be if a matched node always got a new identifier.
MergeNode_AlwaysRegenerate(currentNodes, agentNode, k) ==
  LET o == findOriginal(currentNodes, agentNode)
  IN IF o # 0
     THEN MergedObject(currentNodes[o], agentNode, generateUUID(k + 1))
     ELSE IF ~isValidId(agentNode)
     THEN WithField(agentNode, "id", generateUUID(k))
     ELSE agentNode

\* STEP 3, the callback of cleanUpdates.nodes.map; k counts the generateUUID
\* calls made up to and including this node.
MergeNode(currentNodes, agentNode, k) ==
  LET o == findOriginal(currentNodes, agentNode)
  IN IF o # 0
     THEN LET originalNode == currentNodes[o]
              nodeId == IF isValidId(originalNode) THEN originalNode.id
                        ELSE generateUUID(k)
          IN MergedObject(originalNode, agentNode, nodeId)
     ELSE IF ~isValidId(agentNode)
     THEN WithField(agentNode, "id", generateUUID(k))
     ELSE agentNode

\* The number of generateUUID calls made for the first i proposed nodes.
GeneratedUpTo(currentNodes, agentNodes, i) ==
  Cardinality({ j \in 1..i : NeedsNewId(currentNodes, agentNodes[j]) })

\* let mergedNodes = currentWorkflow.nodes; if (cleanUpdates.nodes && Array.isArray(...))
mergedNodes(current, clean) ==
  IF Has(clean, "nodes")
  THEN [ i \in 1..Len(clean.nodes) |->
           MergeNode(current.nodes, clean.nodes[i],
                     GeneratedUpTo(current.nodes, clean.nodes, i)) ]
  ELSE current.nodes

\* a.f || b.f, as a set holding the value, empty when the result is undefined.
FieldOr(a, b, f) ==
  IF Truthy(a, f) THEN {a[f]} ELSE IF Has(b, f) THEN {b[f]} ELSE {}

\* STEP 4: the payload sent to PUT /workflows/:id.  A field whose value is
\* undefined is not serialised, so it is left out.
MergePayload(current, updates) ==
  LET clean == cleanUpdates(updates)
      name == FieldOr(clean, current, "name")
      connections == FieldOr(clean, current, "connections")
      settings == FieldOr(clean, current, "settings")
      present == {"nodes", "settings"}
                   \cup (IF name = {} THEN {} ELSE {"name"})
                   \cup (IF connections = {} THEN {} ELSE {"connections"})
  IN [ f \in present |->
         CASE f = "name" -> CHOOSE v \in name : TRUE
           [] f = "nodes" -> mergedNodes(current, clean)
           [] f = "connections" -> CHOOSE v \in connections : TRUE
           [] OTHER -> IF settings = {} THEN EmptyObject
                       ELSE CHOOSE v \in settings : TRUE ]

(***************************************************************************)
(* The workflows the runtime returns and the updates the agent proposes.   *)
(***************************************************************************)
\* A record with the fields of base and, when on holds, the field f with value v.
Optional(base, on, f, v) == IF on THEN WithField(base, f, v) ELSE base

ExistingNodeA ==
  { Optional([name |-> "A", id |-> i, type |-> "n8n-nodes-base.gmail", typeVersion |-> 1,
              position |-> "[250,300]",
              parameters |-> [to |-> "x", subject |-> "y"]],
             c, "credentials", "gmailOAuth2") :
      i \in {UUID1, "1"}, c \in BOOLEAN }

ExistingNodeB ==
  [name |-> "B", id |-> UUID2, type |-> "n8n-nodes-base.slack", typeVersion |-> 2,
   position |-> "[450,300]", parameters |-> EmptyObject]

ExistingConnections ==
  [keys |-> {"A"}, edges |-> {[src |-> "A", kind |-> "main", node |-> "B"]}]

\* What GET /workflows/:id returns.
CurrentWorkflows ==
  { Optional([id |-> "wf1", active |-> FALSE, name |-> "My workflow",
              nodes |-> <<a, ExistingNodeB>>, connections |-> ExistingConnections],
             s, "settings", [executionOrder |-> "v1"]) :
      a \in ExistingNodeA, s \in BOOLEAN }

\* The nodes an update may propose: for an existing name or a new one, with or
\* without an identifier, parameters, and the other node fields.
ProposedNodes ==
  { Optional(Optional(Optional(Optional(Optional(Optional([name |-> n],
      i # Absent, "id", i),
      p, "parameters", [to |-> "z"]),
      x, "position", "[650,300]"),
      x, "type", "n8n-nodes-base.httpRequest"),
      x, "typeVersion", 3),
      x, "credentials", "httpBasicAuth") :
      n \in {"A", "C"}, i \in {Absent, UUID1, UUID3, "node-1"},
      p \in BOOLEAN, x \in BOOLEAN }

RECURSIVE SeqsUpTo(_, _)
SeqsUpTo(S, k) ==
  IF k = 0 THEN {<<>>}
  ELSE LET shorter == SeqsUpTo(S, k - 1)
       IN shorter \cup { Append(q, x) : q \in { r \in shorter : Len(r) = k - 1 }, x \in S }

ProposedTops ==
  { <<>>,
    [name |-> ""],
    [id |-> "wf1", active |-> TRUE, name |-> "Renamed",
     connections |-> [keys |-> {}, edges |-> {}],
     settings |-> EmptyObject] }

\* The updates argument of update_workflow.
ProposedUpdates ==
  { top : top \in ProposedTops }
    \cup { WithField(top, "nodes", ns) :
             top \in ProposedTops, ns \in SeqsUpTo(ProposedNodes, MaxUpdateNodes) }

\* The four payload fields of a workflow, those it has.
PayloadFields(w) == [f \in (DOMAIN w) \cap {"name", "nodes", "connections", "settings"} |-> w[f]]

(***************************************************************************)
(* The node index.  toLowerCase, trim and includes are computed on the     *)
(* characters of a string: SpellingTable lists every string of the model   *)
(* with its characters.                                                    *)
(***************************************************************************)
\* The corpus holds at most this many node entries.
MaxEntries == 2

SpellingTable ==
  [ str \in { "", ".", ".git",
              "/api/v1", "@n8n/n8n-nodes-langchain.openAi", "@n8n/n8n-nodes-langchain.openai",
              "GMAIL", "GMAIL ", "GMAIL TRIGGER",
              "Gmail", "Gmail Trigger", "Google",
              "MANUALTRIGGER", "ManualTrigger", "Not gmail",
              "OPENAI", "On new mail", "OpenAI",
              "SLACK", "Send mail", "Slack",
              "Trigger", "Use OpenAI", "__schema__",
              "gmail", "gmail ", "gmail trigger",
              "gmailTrigger", "gmailtrigger", "google",
              "gpt", "http://a", "http://a//",
              "http://a/api/v1", "http://d", "http://d/api/v1",
              "http://e", "http://e/", "http://e/api/v1",
              "mail", "manualTrigger", "manualtrigger",
              "n8n-nodes-base", "n8n-nodes-base.gmail", "n8n-nodes-base.gmailTrigger",
              "n8n-nodes-base.gmailtrigger", "n8n-nodes-base.manualTrigger", "n8n-nodes-base.manualtrigger",
              "n8n-nodes-base.openAi", "n8n-nodes-base.openai", "n8n-nodes-base.slack",
              "not gmail", "notgmail", "on new mail",
              "onnewmail", "openAi", "openai",
              "send mail", "sendmail", "slack",
              "test", "trigger", "use openai",
              "useopenai", "zzz" } |->
    CASE str = "" ->
           <<>>
      [] str = "." ->
           <<".">>
      [] str = ".git" ->
           <<".", "g", "i", "t">>
      [] str = "/api/v1" ->
           <<"/", "a", "p", "i", "/", "v", "1">>
      [] str = "@n8n/n8n-nodes-langchain.openAi" ->
           <<"@", "n", "8", "n", "/", "n", "8", "n", "-", "n", "o", "d", "e", "s", "-", "l", "a", "n", "g", "c", "h", "a", "i", "n", ".", "o", "p", "e", "n", "A", "i">>
      [] str = "@n8n/n8n-nodes-langchain.openai" ->
           <<"@", "n", "8", "n", "/", "n", "8", "n", "-", "n", "o", "d", "e", "s", "-", "l", "a", "n", "g", "c", "h", "a", "i", "n", ".", "o", "p", "e", "n", "a", "i">>
      [] str = "GMAIL" ->
           <<"G", "M", "A", "I", "L">>
      [] str = "GMAIL " ->
           <<"G", "M", "A", "I", "L", " ">>
      [] str = "GMAIL TRIGGER" ->
           <<"G", "M", "A", "I", "L", " ", "T", "R", "I", "G", "G", "E", "R">>
      [] str = "Gmail" ->
           <<"G", "m", "a", "i", "l">>
      [] str = "Gmail Trigger" ->
           <<"G", "m", "a", "i", "l", " ", "T", "r", "i", "g", "g", "e", "r">>
      [] str = "Google" ->
           <<"G", "o", "o", "g", "l", "e">>
      [] str = "MANUALTRIGGER" ->
           <<"M", "A", "N", "U", "A", "L", "T", "R", "I", "G", "G", "E", "R">>
      [] str = "ManualTrigger" ->
           <<"M", "a", "n", "u", "a", "l", "T", "r", "i", "g", "g", "e", "r">>
      [] str = "Not gmail" ->
           <<"N", "o", "t", " ", "g", "m", "a", "i", "l">>
      [] str = "OPENAI" ->
           <<"O", "P", "E", "N", "A", "I">>
      [] str = "On new mail" ->
           <<"O", "n", " ", "n", "e", "w", " ", "m", "a", "i", "l">>
      [] str = "OpenAI" ->
           <<"O", "p", "e", "n", "A", "I">>
      [] str = "SLACK" ->
           <<"S", "L", "A", "C", "K">>
      [] str = "Send mail" ->
           <<"S", "e", "n", "d", " ", "m", "a", "i", "l">>
      [] str = "Slack" ->
           <<"S", "l", "a", "c", "k">>
      [] str = "Trigger" ->
           <<"T", "r", "i", "g", "g", "e", "r">>
      [] str = "Use OpenAI" ->
           <<"U", "s", "e", " ", "O", "p", "e", "n", "A", "I">>
      [] str = "__schema__" ->
           <<"_", "_", "s", "c", "h", "e", "m", "a", "_", "_">>
      [] str = "gmail" ->
           <<"g", "m", "a", "i", "l">>
      [] str = "gmail " ->
           <<"g", "m", "a", "i", "l", " ">>
      [] str = "gmail trigger" ->
           <<"g", "m", "a", "i", "l", " ", "t", "r", "i", "g", "g", "e", "r">>
      [] str = "gmailTrigger" ->
           <<"g", "m", "a", "i", "l", "T", "r", "i", "g", "g", "e", "r">>
      [] str = "gmailtrigger" ->
           <<"g", "m", "a", "i", "l", "t", "r", "i", "g", "g", "e", "r">>
      [] str = "google" ->
           <<"g", "o", "o", "g", "l", "e">>
      [] str = "gpt" ->
           <<"g", "p", "t">>
      [] str = "http://a" ->
           <<"h", "t", "t", "p", ":", "/", "/", "a">>
      [] str = "http://a//" ->
           <<"h", "t", "t", "p", ":", "/", "/", "a", "/", "/">>
      [] str = "http://a/api/v1" ->
           <<"h", "t", "t", "p", ":", "/", "/", "a", "/", "a", "p", "i", "/", "v", "1">>
      [] str = "http://d" ->
           <<"h", "t", "t", "p", ":", "/", "/", "d">>
      [] str = "http://d/api/v1" ->
           <<"h", "t", "t", "p", ":", "/", "/", "d", "/", "a", "p", "i", "/", "v", "1">>
      [] str = "http://e" ->
           <<"h", "t", "t", "p", ":", "/", "/", "e">>
      [] str = "http://e/" ->
           <<"h", "t", "t", "p", ":", "/", "/", "e", "/">>
      [] str = "http://e/api/v1" ->
           <<"h", "t", "t", "p", ":", "/", "/", "e", "/", "a", "p", "i", "/", "v", "1">>
      [] str = "mail" ->
           <<"m", "a", "i", "l">>
      [] str = "manualTrigger" ->
           <<"m", "a", "n", "u", "a", "l", "T", "r", "i", "g", "g", "e", "r">>
      [] str = "manualtrigger" ->
           <<"m", "a", "n", "u", "a", "l", "t", "r", "i", "g", "g", "e", "r">>
      [] str = "n8n-nodes-base" ->
           <<"n", "8", "n", "-", "n", "o", "d", "e", "s", "-", "b", "a", "s", "e">>
      [] str = "n8n-nodes-base.gmail" ->
           <<"n", "8", "n", "-", "n", "o", "d", "e", "s", "-", "b", "a", "s", "e", ".", "g", "m", "a", "i", "l">>
      [] str = "n8n-nodes-base.gmailTrigger" ->
           <<"n", "8", "n", "-", "n", "o", "d", "e", "s", "-", "b", "a", "s", "e", ".", "g", "m", "a", "i", "l", "T", "r", "i", "g", "g", "e", "r">>
      [] str = "n8n-nodes-base.gmailtrigger" ->
           <<"n", "8", "n", "-", "n", "o", "d", "e", "s", "-", "b", "a", "s", "e", ".", "g", "m", "a", "i", "l", "t", "r", "i", "g", "g", "e", "r">>
      [] str = "n8n-nodes-base.manualTrigger" ->
           <<"n", "8", "n", "-", "n", "o", "d", "e", "s", "-", "b", "a", "s", "e", ".", "m", "a", "n", "u", "a", "l", "T", "r", "i", "g", "g", "e", "r">>
      [] str = "n8n-nodes-base.manualtrigger" ->
           <<"n", "8", "n", "-", "n", "o", "d", "e", "s", "-", "b", "a", "s", "e", ".", "m", "a", "n", "u", "a", "l", "t", "r", "i", "g", "g", "e", "r">>
      [] str = "n8n-nodes-base.openAi" ->
           <<"n", "8", "n", "-", "n", "o", "d", "e", "s", "-", "b", "a", "s", "e", ".", "o", "p", "e", "n", "A", "i">>
      [] str = "n8n-nodes-base.openai" ->
           <<"n", "8", "n", "-", "n", "o", "d", "e", "s", "-", "b", "a", "s", "e", ".", "o", "p", "e", "n", "a", "i">>
      [] str = "n8n-nodes-base.slack" ->
           <<"n", "8", "n", "-", "n", "o", "d", "e", "s", "-", "b", "a", "s", "e", ".", "s", "l", "a", "c", "k">>
      [] str = "not gmail" ->
           <<"n", "o", "t", " ", "g", "m", "a", "i", "l">>
      [] str = "notgmail" ->
           <<"n", "o", "t", "g", "m", "a", "i", "l">>
      [] str = "on new mail" ->
           <<"o", "n", " ", "n", "e", "w", " ", "m", "a", "i", "l">>
      [] str = "onnewmail" ->
           <<"o", "n", "n", "e", "w", "m", "a", "i", "l">>
      [] str = "openAi" ->
           <<"o", "p", "e", "n", "A", "i">>
      [] str = "openai" ->
           <<"o", "p", "e", "n", "a", "i">>
      [] str = "send mail" ->
           <<"s", "e", "n", "d", " ", "m", "a", "i", "l">>
      [] str = "sendmail" ->
           <<"s", "e", "n", "d", "m", "a", "i", "l">>
      [] str = "slack" ->
           <<"s", "l", "a", "c", "k">>
      [] str = "test" ->
           <<"t", "e", "s", "t">>
      [] str = "trigger" ->
           <<"t", "r", "i", "g", "g", "e", "r">>
      [] str = "use openai" ->
           <<"u", "s", "e", " ", "o", "p", "e", "n", "a", "i">>
      [] str = "useopenai" ->
           <<"u", "s", "e", "o", "p", "e", "n", "a", "i">>
      [] str = "zzz" ->
           <<"z", "z", "z">> ]

\* The characters of a string, and the string of a sequence of characters.
Spell(str) == SpellingTable[str]

Unspell(chars) == CHOOSE str \in DOMAIN SpellingTable : SpellingTable[str] = chars

UpperCase ==
  <<"A", "B", "C", "D", "E", "F", "G", "H", "I", "J", "K", "L", "M",
    "N", "O", "P", "Q", "R", "S", "T", "U", "V", "W", "X", "Y", "Z">>

LowerCase ==
  <<"a", "b", "c", "d", "e", "f", "g", "h", "i", "j", "k", "l", "m",
    "n", "o", "p", "q", "r", "s", "t", "u", "v", "w", "x", "y", "z">>

lowerChars(chars) ==
  [ i \in 1..Len(chars) |->
      IF \E j \in 1..Len(UpperCase) : UpperCase[j] = chars[i]
      THEN LowerCase[CHOOSE j \in 1..Len(UpperCase) : UpperCase[j] = chars[i]]
      ELSE chars[i] ]

RECURSIVE trimChars(_)
trimChars(chars) ==
  IF chars = <<>> THEN chars
  ELSE IF Head(chars) = " " THEN trimChars(Tail(chars))
  ELSE IF chars[Len(chars)] = " " THEN trimChars(SubSeq(chars, 1, Len(chars) - 1))
  ELSE chars

\* toLowerCase and trim of every string of the table, computed once.
LowerCased == [ str \in DOMAIN SpellingTable |-> Unspell(lowerChars(Spell(str))) ]

Trimmed == [ str \in DOMAIN SpellingTable |-> Unspell(trimChars(Spell(str))) ]

\* String.prototype.toLowerCase
toLowerCase(str) == LowerCased[str]

\* String.prototype.trim
trim(str) == Trimmed[str]

\* str.replace(/\s+/g, '')
withoutSpaces(str) == Unspell(SelectSeq(Spell(str), LAMBDA c : c # " "))

\* String.prototype.includes
strIncludes(str, sub) ==
  LET hay == Spell(str)
      needle == Spell(sub)
  IN /\ Len(needle) <= Len(hay)
     /\ \E i \in 0..(Len(hay) - Len(needle)) :
          SubSeq(hay, i + 1, i + Len(needle)) = needle

T_gmail == "n8n-nodes-base.gmail"

T_gmailTrigger == "n8n-nodes-base.gmailTrigger"

T_openAi == "n8n-nodes-base.openAi"

T_lcOpenAi == "@n8n/n8n-nodes-langchain.openAi"

T_slack == "n8n-nodes-base.slack"

\* The node entries scanNodes may yield (NodeIndexEntry: type, displayName,
\* name, description, isTrigger).
EntryPool ==
  { [type |-> T_gmail, displayName |-> "Gmail",
     name |-> "gmail", description |-> "Send mail",
     isTrigger |-> FALSE],
    [type |-> T_gmailTrigger, displayName |-> "Gmail Trigger",
     name |-> "gmailTrigger", description |-> "On new mail",
     isTrigger |-> TRUE],
    [type |-> T_openAi, displayName |-> "OpenAI",
     name |-> "openAi", description |-> "",
     isTrigger |-> FALSE],
    [type |-> T_lcOpenAi, displayName |-> "OpenAI",
     name |-> "openAi", description |-> "Use OpenAI",
     isTrigger |-> FALSE],
    [type |-> T_slack, displayName |-> "Slack",
     name |-> "slack", description |-> "Not gmail",
     isTrigger |-> FALSE] }

\* The entries of manualAliases the model keeps.
manualAliases ==
  << [alias |-> "mail", nodeType |-> T_gmail],
     [alias |-> "openai", nodeType |-> T_openAi],
     [alias |-> "gpt", nodeType |-> T_openAi] >>

\* map[k] = v on an object used as a dictionary.
Put(map, k, v) == [x \in (DOMAIN map) \cup {k} |-> IF x = k THEN v ELSE map[x]]

EmptyMap == [x \in {} |-> ""]

\* The aliases an entry registers, in the order of the assignments.
aliasesOf(entry) ==
  LET lowerName == toLowerCase(entry.name)
      lowerDisplay == toLowerCase(entry.displayName)
  IN <<lowerName, lowerDisplay>>
       \o (IF lowerName # lowerDisplay THEN <<withoutSpaces(lowerDisplay)>> ELSE <<>>)

\* The for-loop of buildIndex over allEntries, up to and including entry i.
RECURSIVE indexAfter(_, _)
indexAfter(allEntries, i) ==
  IF i = 0
  THEN [totalNodes |-> Len(allEntries), nodes |-> EmptyMap, order |-> <<>>,
        triggerNodes |-> <<>>, aliases |-> EmptyMap]
  ELSE LET before == indexAfter(allEntries, i - 1)
           entry == allEntries[i]
           names == aliasesOf(entry)
           withAliases[k \in 0..Len(names)] ==
             IF k = 0 THEN before.aliases ELSE Put(withAliases[k - 1], names[k], entry.type)
       IN [ totalNodes |-> before.totalNodes,
            nodes |-> Put(before.nodes, entry.type, entry),
            order |-> IF entry.type \in DOMAIN before.nodes THEN before.order
                      ELSE Append(before.order, entry.type),
            triggerNodes |-> IF entry.isTrigger
                             THEN Append(before.triggerNodes, entry.type)
                             ELSE before.triggerNodes,
            aliases |-> withAliases[Len(names)] ]

\* buildIndex(): the index with the manual aliases whose target exists.
buildIndex(allEntries) ==
  LET scanned == indexAfter(allEntries, Len(allEntries))
      withManual[k \in 0..Len(manualAliases)] ==
        IF k = 0 THEN scanned.aliases
        ELSE IF manualAliases[k].nodeType \in DOMAIN scanned.nodes
        THEN Put(withManual[k - 1], manualAliases[k].alias, manualAliases[k].nodeType)
        ELSE withManual[k - 1]
  IN [scanned EXCEPT !.aliases = withManual[Len(manualAliases)]]

\* The score of the search loop's body for one entry.
scoreOf(entry, type, lowerQuery) ==
    (IF toLowerCase(entry.name) = lowerQuery THEN 90 ELSE 0)
  + (IF toLowerCase(entry.displayName) = lowerQuery THEN 90 ELSE 0)
  + (IF strIncludes(toLowerCase(entry.name), lowerQuery) THEN 50 ELSE 0)
  + (IF strIncludes(toLowerCase(entry.displayName), lowerQuery) THEN 50 ELSE 0)
  + (IF strIncludes(toLowerCase(entry.description), lowerQuery) THEN 20 ELSE 0)
  + (IF strIncludes(toLowerCase(type), lowerQuery) THEN 40 ELSE 0)

\* The score given to the entry found through the alias table.
aliasScore == 100

\* The results array before sorting: the alias hit, then every other entry
\* with a positive score, in the order of Object.entries(nodes).
unsortedResults(index, lowerQuery) ==
  LET viaAlias ==
        IF lowerQuery \in DOMAIN index.aliases
             /\ index.aliases[lowerQuery] \in DOMAIN index.nodes
        THEN <<[entry |-> index.nodes[index.aliases[lowerQuery]], score |-> aliasScore]>>
        ELSE <<>>
      scanned[i \in 0..Len(index.order)] ==
        IF i = 0 THEN <<>>
        ELSE LET type == index.order[i]
                 entry == index.nodes[type]
                 score == scoreOf(entry, type, lowerQuery)
             IN IF \E k \in 1..Len(viaAlias) : viaAlias[k].entry.type = type
                THEN scanned[i - 1]
                ELSE IF score > 0
                THEN Append(scanned[i - 1], [entry |-> entry, score |-> score])
                ELSE scanned[i - 1]
  IN viaAlias \o scanned[Len(index.order)]

\* results.sort((a, b) => b.score - a.score): a stable sort, highest score first.
RECURSIVE sortByScore(_)
sortByScore(results) ==
  IF results = <<>> THEN <<>>
  ELSE LET best == CHOOSE i \in 1..Len(results) :
                     /\ \A j \in 1..Len(results) : results[j].score <= results[i].score
                     /\ \A j \in 1..(i - 1) : results[j].score < results[i].score
           rest == [ j \in 1..(Len(results) - 1) |->
                       IF j < best THEN results[j] ELSE results[j + 1] ]
       IN <<results[best]>> \o sortByScore(rest)

\* searchNodes(query, limit) on a loaded index: the types of the results.
searchNodes(index, query, limit) ==
  LET lowerQuery == trim(toLowerCase(query))
      sorted == sortByScore(unsortedResults(index, lowerQuery))
      kept == SubSeq(sorted, 1, IF Len(sorted) < limit THEN Len(sorted) ELSE limit)
  IN [ i \in 1..Len(kept) |-> kept[i].entry.type ]

\* The corpora: sequences of distinct entries of the pool.
Corpora ==
  { c \in SeqsUpTo(EntryPool, MaxEntries) :
      \A i, j \in 1..Len(c) : i # j => c[i] # c[j] }

\* The queries the model searches for.
Queries ==
  { e.displayName : e \in EntryPool } \cup { e.name : e \in EntryPool }
    \cup { manualAliases[k].alias : k \in 1..Len(manualAliases) }
    \cup { "GMAIL ", "zzz", "" }

Limits == {1, 2, 10}

\* `${a}.${b}` on strings.
dotted(a, b) == Unspell(Spell(a) \o <<".">> \o Spell(b))

\* The node folders the fallback scan may find under a package's nodes
\* directory: the folder name and the "node" field of its .node.json, if any.
FolderPool ==
  { [item |-> "Gmail", node |-> "n8n-nodes-base.gmail"],
    [item |-> "ManualTrigger", node |-> "n8n-nodes-base.manualTrigger"],
    [item |-> "Slack", node |-> Absent] }

\* The entry buildMinimalIndex writes for a folder of the package with this prefix.
minimalEntry(prefix, folder) ==
  LET lowerItem == toLowerCase(folder.item)
  IN [ type |-> IF folder.node # Absent THEN folder.node
                ELSE dotted(prefix, lowerItem),
       displayName |-> folder.item,
       name |-> lowerItem,
       description |-> "",
       isTrigger |-> strIncludes(folder.item, "Trigger") ]

\* buildMinimalIndex(): the index after scanDir has visited the folders in
\* order.  triggerNodes is never written.
buildMinimalIndex(folders) ==
  LET scanned[i \in 0..Len(folders)] ==
        IF i = 0
        THEN [totalNodes |-> 0, nodes |-> EmptyMap, order |-> <<>>,
              triggerNodes |-> <<>>, aliases |-> EmptyMap]
        ELSE LET before == scanned[i - 1]
                 entry == minimalEntry("n8n-nodes-base", folders[i])
             IN [ before EXCEPT
                    !.nodes = Put(@, entry.type, entry),
                    !.order = IF entry.type \in DOMAIN before.nodes THEN @
                              ELSE Append(@, entry.type),
                    !.aliases = Put(@, toLowerCase(folders[i].item), entry.type) ]
      last == scanned[Len(folders)]
  IN [last EXCEPT !.totalNodes = Cardinality(DOMAIN last.nodes)]

\* The scans of the packages directory: sequences of distinct folders.
FolderScans ==
  { c \in SeqsUpTo(FolderPool, MaxEntries) :
      \A i, j \in 1..Len(c) : i # j => c[i] # c[j] }

\* private nodeIndex: NodeIndex | null = null
NullIndex == [null |-> TRUE]

\* !this.nodeIndex
IsNull(index) == "null" \in DOMAIN index

\* getNodeDetails(nodeType) on a loaded index: the type of the entry it
\* returns, or Absent for null.
getNodeDetails(index, nodeType) ==
  LET lower == toLowerCase(nodeType)
  IN IF nodeType \in DOMAIN index.nodes THEN index.nodes[nodeType].type
     ELSE IF lower \in DOMAIN index.aliases /\ index.aliases[lower] \in DOMAIN index.nodes
     THEN index.nodes[index.aliases[lower]].type
     ELSE Absent

\* getTriggerNodes() on a loaded index: the types of the results, in order.
getTriggerNodes(index) ==
  [ i \in 1..Len(index.triggerNodes) |-> index.nodes[index.triggerNodes[i]].type ]

\* The arguments getNodeDetails is called with.
DetailQueries ==
  { e.type : e \in EntryPool } \cup { e.displayName : e \in EntryPool }
    \cup { manualAliases[k].alias : k \in 1..Len(manualAliases) }
    \cup { "GMAIL", "gmail", "OPENAI", "openai", "gmail trigger", "gmailtrigger",
           "ManualTrigger", "MANUALTRIGGER", "manualtrigger",
           "n8n-nodes-base.manualTrigger", "slack", "zzz" }

(***************************************************************************)
(* The scan of the index build (scripts/build-node-index.ts).  A node file *)
(* is described by what the regular expressions of extractNodeInfo find in *)
(* it; a folder by its name, its .node.ts files, its subfolders and the    *)
(* "node" field of its .node.json.  Every item of a folder is a directory. *)
(* Version, credentials, resources and schema information are left out of  *)
(* the entries; a path is the sequence of its components.                  *)
(***************************************************************************)
\* A nodes directory holds at most this many folders.
MaxFolders == 2

\* The value extractNodeInfo returns from its catch.
NullInfo == [null |-> TRUE]

\* match?.[1] || ''
MatchOrEmpty(match) == IF match = Absent THEN "" ELSE match

\* extractNodeInfo(nodeFilePath): null when reading the file raises.
extractNodeInfo(file) ==
  IF ~file.readable THEN NullInfo
  ELSE LET name == MatchOrEmpty(file.name)
       IN [ displayName |-> MatchOrEmpty(file.displayName),
            name |-> name,
            description |-> MatchOrEmpty(file.description),
            isTrigger |-> \/ file.triggerGroup
                          \/ strIncludes(toLowerCase(name), "trigger")
                          \/ file.triggerFunctions ]

\* a || b on strings.
StrOr(a, b) == IF a = "" THEN b ELSE a

\* findMainNodeFile(nodeDir): the first .node.ts whose name has no
\* "Trigger", else the first .node.ts; 0 for null.
findMainNodeFile(files) ==
  LET plain == { i \in 1..Len(files) : ~files[i].isTriggerFile }
  IN IF plain # {} THEN CHOOSE i \in plain : \A j \in plain : i <= j
     ELSE IF Len(files) > 0 THEN 1
     ELSE 0

\* readdirSync(fullPath).find(f => f.includes('Trigger') && f.endsWith('.node.ts')),
\* 0 for undefined.
findTriggerFile(files) ==
  LET triggers == { i \in 1..Len(files) : files[i].isTriggerFile }
  IN IF triggers = {} THEN 0 ELSE CHOOSE i \in triggers : \A j \in triggers : i <= j

\* item.startsWith('.') || item === '__schema__' || item === 'test'
isSkippedItem(item) ==
  Head(Spell(item)) = "." \/ item = "__schema__" \/ item = "test"

\* `${item} Trigger`
withTrigger(item) == Unspell(Spell(item) \o <<" ">> \o Spell("Trigger"))

\* The entries scanNodes pushes for a folder with a .node.ts file.
leafEntries(folder, codePath, defaultPrefix) ==
  LET main == findMainNodeFile(folder.files)
      nodeInfo == extractNodeInfo(folder.files[main])
      trigger == findTriggerFile(folder.files)
      triggerInfo == extractNodeInfo(folder.files[trigger])
  IN IF main = 0 THEN <<>>
     ELSE IF "null" \in DOMAIN nodeInfo THEN <<>>
     ELSE IF nodeInfo.name = "" THEN <<>>
     ELSE << [ type |-> IF folder.node # Absent THEN folder.node
                        ELSE dotted(defaultPrefix, nodeInfo.name),
               displayName |-> StrOr(nodeInfo.displayName, folder.item),
               name |-> nodeInfo.name,
               description |-> nodeInfo.description,
               isTrigger |-> nodeInfo.isTrigger,
               codePath |-> codePath ] >>
          \o (IF trigger # 0 /\ ~folder.files[main].isTriggerFile
              THEN IF "null" \in DOMAIN triggerInfo THEN <<>>
                   ELSE IF triggerInfo.name = "" THEN <<>>
                   ELSE << [ type |-> dotted(defaultPrefix, triggerInfo.name),
                             displayName |-> StrOr(triggerInfo.displayName,
                                                   withTrigger(folder.item)),
                             name |-> triggerInfo.name,
                             description |-> triggerInfo.description,
                             isTrigger |-> TRUE,
                             codePath |-> codePath ] >>
              ELSE <<>>)

\* scanNodes(dir, relativePath, defaultPrefix) on the items of dir.
RECURSIVE scanNodes(_, _, _)
scanNodes(items, relativePath, defaultPrefix) ==
  IF items = <<>> THEN <<>>
  ELSE LET folder == Head(items)
           itemRelativePath == Append(relativePath, folder.item)
           found ==
             IF isSkippedItem(folder.item) THEN <<>>
             ELSE IF Len(folder.files) > 0
             THEN leafEntries(folder, <<defaultPrefix>> \o itemRelativePath, defaultPrefix)
             ELSE scanNodes(folder.children, itemRelativePath, defaultPrefix)
       IN found \o scanNodes(Tail(items), relativePath, defaultPrefix)

\* What a .node.ts file holds for the regular expressions, and whether it
\* can be read.
NodeFile(readable, displayName, name, isTriggerFile) ==
  [ readable |-> readable, displayName |-> displayName, name |-> name,
    description |-> IF displayName = Absent THEN Absent ELSE "Send mail",
    triggerGroup |-> isTriggerFile, triggerFunctions |-> FALSE,
    isTriggerFile |-> isTriggerFile ]

\* The main files a folder may hold: complete, without a display name and a
\* description, without a name the expression matches, and unreadable.
MainFiles(displayName, name) ==
  { NodeFile(TRUE, displayName, name, FALSE),
    NodeFile(TRUE, Absent, name, FALSE),
    NodeFile(TRUE, displayName, Absent, FALSE),
    NodeFile(FALSE, Absent, Absent, FALSE) }

Folder(item, files, children, node) ==
  [item |-> item, files |-> files, children |-> children, node |-> node]

GmailFolders ==
  { Folder("Gmail", <<main>> \o trigger, <<>>, node) :
      main \in MainFiles("Gmail", "gmail"),
      trigger \in { <<>>, <<NodeFile(TRUE, "Gmail Trigger", "gmailTrigger", TRUE)>>,
                    <<NodeFile(TRUE, Absent, "gmailTrigger", TRUE)>>,
                    <<NodeFile(FALSE, Absent, Absent, TRUE)>> },
      node \in {Absent, T_gmail} }

\* The folders of a nodes directory: node folders, a folder with only a
\* trigger file, a group of node folders, and folders the scan skips.
BuildFolderPool ==
  GmailFolders
    \cup { Folder("Slack", <<main>>, <<>>, Absent) : main \in MainFiles("Slack", "slack") }
    \cup { Folder("ManualTrigger",
                  <<NodeFile(TRUE, Absent, "manualTrigger", TRUE)>>, <<>>, Absent) }
    \cup { Folder("Google", <<>>, <<g>>, Absent) :
             g \in { f \in GmailFolders : f.node = Absent /\ Len(f.files) = 1 } }
    \cup { Folder("test", <<NodeFile(TRUE, "Gmail", "gmail", FALSE)>>, <<>>, Absent),
           Folder(".git", <<>>, <<>>, Absent) }

\* The nodes directories: folders with distinct names.
NodesDirs ==
  { d \in SeqsUpTo(BuildFolderPool, MaxFolders) :
      \A i, j \in 1..Len(d) : i # j => d[i].item # d[j].item }

(***************************************************************************)
(* The orchestration loop of AiAgentService.  A text is a sequence of      *)
(* words: the empty string is <<>> and += is concatenation.                *)
(***************************************************************************)
MAX_VALIDATION_FAILURES == 3

\* recursionLimit of app.invoke and app.streamEvents.
RecursionLimit == 50

\* The sessions that may send requests.
Sessions == {"s1", "s2"}

\* The words one streaming request accumulates from the model, at most.
MaxText == 2

\* The count of consecutive invalid submissions is followed up to this value.
MaxRun == 4

\* The model under test asks for a tool in at most this many turns of a request.
MaxToolTurns == 3

NoText == <<>>

\* The contents a model reply may carry.
ReplyTexts == { NoText, <<"a">>, <<"a", "b">> }

\* The static fallback messages of runAgentStreaming.
SummaryEmptyFallback == <<"I completed researching your request but encountered an issue generating a summary.">>

SummaryFailedFallback_Empty == NoText

SummaryFailedFallback == <<"I completed processing your request but had trouble generating a summary.">>

NoResponseFallback == <<"I apologize, but I wasn't able to generate a response.">>

\* The drafts the model submits: a trigger wired to a node, the same two
\* nodes with no connection, and a node whose type has no '.'.
ChainDraft ==
  [ nodes |-> << [name |-> "T", type |-> "n8n-nodes-base.manualTrigger"],
                 [name |-> "A", type |-> "n8n-nodes-base.gmail"] >>,
    keys |-> {"T"},
    edges |-> { [src |-> "T", kind |-> "main", node |-> "A"] } ]

LooseDraft == [ChainDraft EXCEPT !.keys = {}, !.edges = {}]

UntypedDraft ==
  [ nodes |-> << [name |-> "A", type |-> "gmail"] >>, keys |-> {}, edges |-> {} ]

NoArgs == [ nodes |-> <<>>, keys |-> {}, edges |-> {} ]

NoToolCall == [name |-> "none", args |-> NoArgs]

\* The tool calls a model reply may request (tool_calls of the reply).
ToolCalls ==
  { [name |-> "create_workflow", args |-> d] : d \in {ChainDraft, LooseDraft, UntypedDraft} }
    \cup { [name |-> "update_workflow", args |-> d] : d \in {ChainDraft, LooseDraft} }
    \cup { [name |-> "search_nodes", args |-> NoArgs] }

\* The body of create_workflow.func up to the call of the runtime: the reply it
\* returns, the failure counter it leaves, whether it goes on to the runtime,
\* and the errors array its reply lists.
CreateWorkflowFunc_NoReset(d, failures) ==
  IF FirstInvalidType(d) # Absent
  THEN [reply |-> "Error: Node", failures |-> failures, send |-> FALSE, defects |-> <<>>]
  ELSE IF ValidateDraft(d) # <<>>
  THEN IF failures + 1 >= MAX_VALIDATION_FAILURES
       THEN [reply |-> "FATAL ERROR", failures |-> 0, send |-> FALSE,
             defects |-> ValidateDraft(d)]
       ELSE [reply |-> "ERROR", failures |-> failures + 1, send |-> FALSE,
             defects |-> ValidateDraft(d)]
  ELSE [reply |-> "", failures |-> failures, send |-> TRUE, defects |-> <<>>]

\* create_workflow.func as it would be if a retry reported only the first defect.
CreateWorkflowFunc_DefectsByCounter(d, failures) ==
  IF FirstInvalidType(d) # Absent
  THEN [reply |-> "Error: Node", failures |-> failures, send |-> FALSE, defects |-> <<>>]
  ELSE IF ValidateDraft(d) # <<>>
  THEN IF failures + 1 >= MAX_VALIDATION_FAILURES
       THEN [reply |-> "FATAL ERROR", failures |-> 0, send |-> FALSE,
             defects |-> IF failures = 0 THEN ValidateDraft(d) ELSE <<Head(ValidateDraft(d))>>]
       ELSE [reply |-> "ERROR", failures |-> failures + 1, send |-> FALSE,
             defects |-> IF failures = 0 THEN ValidateDraft(d) ELSE <<Head(ValidateDraft(d))>>]
  ELSE [reply |-> "", failures |-> 0, send |-> TRUE, defects |-> <<>>]

\* create_workflow.func as it would be with > in place of >= in the test of
\* the counter against MAX_VALIDATION_FAILURES.
CreateWorkflowFunc_ResetsLate(d, failures) ==
  IF FirstInvalidType(d) # Absent
  THEN [reply |-> "Error: Node", failures |-> failures, send |-> FALSE, defects |-> <<>>]
  ELSE IF ValidateDraft(d) # <<>>
  THEN IF failures + 1 > MAX_VALIDATION_FAILURES
       THEN [reply |-> "FATAL ERROR", failures |-> 0, send |-> FALSE,
             defects |-> ValidateDraft(d)]
       ELSE [reply |-> "ERROR", failures |-> failures + 1, send |-> FALSE,
             defects |-> ValidateDraft(d)]
  ELSE [reply |-> "", failures |-> 0, send |-> TRUE, defects |-> <<>>]

CreateWorkflowFunc(d, failures) ==
  IF FirstInvalidType(d) # Absent
  THEN [reply |-> "Error: Node", failures |-> failures, send |-> FALSE, defects |-> <<>>]
  ELSE IF ValidateDraft(d) # <<>>
  THEN IF failures + 1 >= MAX_VALIDATION_FAILURES
       THEN [reply |-> "FATAL ERROR", failures |-> 0, send |-> FALSE,
             defects |-> ValidateDraft(d)]
       ELSE [reply |-> "ERROR", failures |-> failures + 1, send |-> FALSE,
             defects |-> ValidateDraft(d)]
  ELSE [reply |-> "", failures |-> 0, send |-> TRUE, defects |-> <<>>]

\* A call of the Workflow Runtime Client in flight: the operation and the draft
\* it carries.
NoCall == [op |-> "none", draft |-> NoArgs]

\* An event of app.streamEvents as the for-await loop reads it.
Event(kind, text, toolCalls) == [event |-> kind, text |-> text, toolCalls |-> toolCalls]

\* The chunk events a reply is streamed as: none, or one per word (for a reply
\* without text, one chunk with empty content).
Chunkings(content) ==
  LET perWord == [ i \in 1..Len(content) |-> <<content[i]>> ]
  IN IF content = NoText THEN { <<>>, <<NoText>> } ELSE { <<>>, perWord }

\* The events one model call produces.  A chat model streams
\* on_chat_model_stream chunks and ends with on_chat_model_end; the other
\* format streams on_llm_stream chunks and has no on_chat_model_end.
ModelEvents(format, chunks, content, hasToolCalls) ==
  IF format = "chat"
  THEN [ i \in 1..Len(chunks) |-> Event("on_chat_model_stream", chunks[i], FALSE) ]
         \o << Event("on_chat_model_end", content, hasToolCalls) >>
  ELSE [ i \in 1..Len(chunks) |-> Event("on_llm_stream", chunks[i], FALSE) ]

\* The concatenation of the tokens a sink received.
RECURSIVE Concat(_)
Concat(tokens) == IF tokens = <<>> THEN <<>> ELSE Head(tokens) \o Concat(Tail(tokens))

\* An event chatStream writes to the response: data: {"token": ...},
\* data: [DONE] or data: {"error": ...}.
SseEvent(kind, text) == [kind |-> kind, text |-> text]

DoneEvent == SseEvent("done", NoText)

ErrorEvent == SseEvent("error", NoText)

\* The locals of one request: those of runAgent / runAgentStreaming and, for a
\* streaming request, what chatStream has written to its response (response)
\* and whether it has called res.end() (ended); defects is the errors array of
\* the last create_workflow call of the request; forcedRequests counts the
\* tools-disabled model.invoke calls and forcedOutcome is how the call ended
\* ("none", "text", "empty" or "raised"); ceilingHit says that the graph
\* stopped the request at recursionLimit; respondingSinceTool says that a
\* "responding" status was emitted and no status of a tool after it; gaveUp
\* says that create_workflow returned the give-up message in the request.
IdleRequest ==
  [ pc |-> "idle", mode |-> "none", steps |-> 0,
    lastMessage |-> [role |-> "none", content |-> NoText, toolCall |-> NoToolCall],
    events |-> <<>>, finalResponse |-> NoText, sink |-> <<>>,
    toolCallCount |-> 0, hasStartedGenerating |-> FALSE,
    hasShownInitialThinking |-> FALSE, lastStatus |-> "none",
    result |-> NoText, outbox |-> NoCall,
    counterAtStart |-> 0, invalidRun |-> 0,
    response |-> <<>>, ended |-> FALSE, defects |-> <<>>,
    forcedRequests |-> 0, forcedOutcome |-> "none", ceilingHit |-> FALSE,
    respondingSinceTool |-> FALSE, gaveUp |-> FALSE ]

(***************************************************************************)
(* N8nService.updateInstance: how the connection of the runtime client is  *)
(* resolved.  A value that is undefined or null is Absent.                  *)
(***************************************************************************)
\* What JavaScript's || treats as nothing.
Falsy(x) == x \in {Absent, ""}

\* a || b
OrElse(a, b) == IF Falsy(a) THEN b ELSE a

\* url.replace(/\/+$/, '')
RECURSIVE withoutTrailingSlashes(_)
withoutTrailingSlashes(chars) ==
  IF chars # <<>> /\ chars[Len(chars)] = "/"
  THEN withoutTrailingSlashes(SubSeq(chars, 1, Len(chars) - 1))
  ELSE chars

\* The url and key updateInstance settles on, with the settings read second.
resolve_SettingsFirst(baseUrl, apiKey, dbUrl, dbKey, env) ==
  [ url |-> OrElse(OrElse(dbUrl, baseUrl), env.N8N_BASE_URL),
    key |-> OrElse(OrElse(dbKey, apiKey), env.N8N_API_KEY) ]

\* let url = baseUrl || dbUrl || configService.get('N8N_BASE_URL'), and the
\* same for key.
resolve(baseUrl, apiKey, dbUrl, dbKey, env) ==
  [ url |-> OrElse(OrElse(baseUrl, dbUrl), env.N8N_BASE_URL),
    key |-> OrElse(OrElse(apiKey, dbKey), env.N8N_API_KEY) ]

\* axios.create({ baseURL: `${url}/api/v1`, headers: { 'X-N8N-API-KEY': key } })
axiosCreate(url, key) ==
  [ baseURL |-> Unspell(withoutTrailingSlashes(Spell(url)) \o Spell("/api/v1")),
    key |-> key ]

\* The client a call of updateInstance leaves, given the client before it.
configured(before, baseUrl, apiKey, dbUrl, dbKey, env) ==
  LET r == resolve(baseUrl, apiKey, dbUrl, dbKey, env)
  IN IF Falsy(r.url) \/ Falsy(r.key) THEN before ELSE axiosCreate(r.url, r.key)

NoClient == [baseURL |-> Absent, key |-> Absent]

\* The values the arguments, the settings store and the environment may hold.
ArgUrls == {Absent, "", "http://a//"}

ArgKeys == {Absent, "ka"}

SettingUrls == {Absent, "", "http://d"}

SettingKeys == {Absent, "kd"}

EnvUrls == {Absent, "http://e/"}

EnvKeys == {Absent, "ke"}

NoInstanceCall ==
  [ pc |-> "idle", baseUrl |-> Absent, apiKey |-> Absent,
    dbUrl |-> Absent, dbKey |-> Absent, before |-> NoClient ]

(***************************************************************************)
(* One turn of the tools node: the tool calls of a model reply run through *)
(* the wrapper of wrapToolsWithStatus, then the agent node runs again.     *)
(***************************************************************************)
\* A model reply asks for at most this many tool calls.
MaxCallsPerTurn == 2

\* The tools a reply asks for in the turn.
TurnTools == {"search_nodes", "create_workflow", "update_workflow"}

\* What the original func of a tool may return: a result, and for
\* create_workflow also the validation rejection message.
ToolReturns(tool) == IF tool = "create_workflow" THEN {"result", "rejection"} ELSE {"result"}

\* An entry of statusSubject: the type of the status and, for the statuses of
\* the tool wrapper, the invocation that emitted it (0 for the others).
Status(type, call) == [type |-> type, call |-> call]

\* The status the wrapper emits after originalFunc, if every outcome were
\* reported as a result.
afterStatus_AlwaysResult(raised) == "tool_result"

\* The status the wrapper emits after originalFunc returned or raised.
afterStatus(raised) == IF raised THEN "error" ELSE "tool_result"

\* The tools node is done as soon as one of its tool calls has resolved.
toolsResolved_Any(invs) ==
  \E i \in DOMAIN invs : invs[i].pc \in {"returned", "raised"}

\* The tools node is done when every tool call has resolved: a call that
\* raised becomes a tool message like one that returned.
toolsResolved(invs) ==
  \A i \in DOMAIN invs : invs[i].pc \in {"returned", "raised"}

\* The tool calls of a reply, none of them started.
TurnCalls ==
  UNION { [1..n -> [tool : TurnTools, pc : {"pending"}, returned : {"none"}]] :
            n \in 1..MaxCallsPerTurn }

(***************************************************************************)
(* State.                                                                  *)
(***************************************************************************)
VARIABLES
  draft,            \* the draft handed to the validator
  errors,           \* the errors array the validator built for it
  checked,          \* whether the validator has run on draft
  currentWorkflow,  \* updateWorkflow: what getWorkflow(id) returned
  updates,          \* updateWorkflow: the updates argument
  payload,          \* updateWorkflow: the payload of the last PUT
  mergeStep,        \* updateWorkflow: "input", "merged" or "remerged"
  axiosInstance,    \* N8nService.axiosInstance: its baseURL and API key header
  settings,         \* the settings store: N8N_BASE_URL and N8N_API_KEY
  env,              \* ConfigService: N8N_BASE_URL and N8N_API_KEY of the environment
  instanceCall,     \* the locals of the call of updateInstance in progress or just done
  nodeIndex,        \* NodeIndexService.nodeIndex
  query,            \* the query or node type the last read was given ("" if none)
  limit,            \* the limit the last read was given (0 if none)
  results,          \* the types of the entries the last read returned, in order
  searchStep,       \* "start", "loaded", then the last read: "searched", "details", "triggers"
  indexFile,        \* the snapshot file: "present", "missing", or "empty" (no content)
  apiKey,           \* whether GEMINI_API_KEY is set in the settings or the environment
  model,            \* AiAgentService.model: "unset" or "set"
  workflowValidationFailures,  \* AiAgentService.workflowValidationFailures
  clients,          \* the sessions that send requests
  observers,        \* the subscriptions of GET /ai/status that are open
  received,         \* per subscription: the statuses written to it, in order
  emitted,          \* every emitStatus call so far: the session it ran for, the status
  subscribedAt,     \* per subscription: how many statuses had been emitted before it
  nodesDir,         \* the folders of the nodes directory the build scans
  entries,          \* the entries scanNodes returned
  buildStep,        \* "idle", "start", "scanned" or "built"
  snapshot,         \* the index buildIndex returns, NullIndex before
  invocations,      \* the tool calls of the turn: tool, pc and what func returned
  statusLog,        \* the statuses emitted on statusSubject during the turn
  turnPc,           \* "idle", "tools" (the tools node runs) or "agent" (callModel runs)
  modelUnderTest,   \* "bounded": asks for a tool in at most MaxToolTurns turns of
                    \* a request; "unbounded": may ask for search_nodes on every
                    \* turn; "drafting": asks for create_workflow only
  request           \* per session: the locals of its runAgent / runAgentStreaming call

validatorVars == <<draft, errors, checked>>

clientVars == <<axiosInstance, settings, env, instanceCall>>

mergeVars == <<currentWorkflow, updates, payload, mergeStep, clientVars>>

indexVars == <<nodeIndex, query, limit, results, searchStep, indexFile>>

channelVars == <<observers, received, emitted, subscribedAt>>

buildVars == <<nodesDir, entries, buildStep, snapshot, channelVars>>

turnVars == <<invocations, statusLog, turnPc, buildVars>>

agentVars ==
  <<apiKey, model, workflowValidationFailures, clients, request, modelUnderTest, turnVars>>

vars == <<validatorVars, mergeVars, indexVars, agentVars>>

ValidatorIdle == draft = Absent /\ errors = <<>> /\ checked = FALSE

ClientIdle ==
  /\ axiosInstance = NoClient
  /\ settings = [N8N_BASE_URL |-> Absent, N8N_API_KEY |-> Absent]
  /\ env = [N8N_BASE_URL |-> Absent, N8N_API_KEY |-> Absent]
  /\ instanceCall = NoInstanceCall

UpdateIdle ==
  currentWorkflow = Absent /\ updates = Absent /\ payload = Absent /\ mergeStep = "idle"

MergeIdle == UpdateIdle /\ ClientIdle

IndexIdle ==
  /\ nodeIndex = NullIndex /\ query = "" /\ limit = 0 /\ results = <<>>
  /\ searchStep = "idle" /\ indexFile = "present"

ChannelIdle ==
  /\ observers = {} /\ emitted = <<>>
  /\ received = [o \in {} |-> <<>>] /\ subscribedAt = [o \in {} |-> 0]

BuildIdle ==
  /\ nodesDir = <<>> /\ entries = <<>> /\ buildStep = "idle"
  /\ snapshot = [null |-> TRUE]
  /\ ChannelIdle

TurnIdle == invocations = <<>> /\ statusLog = <<>> /\ turnPc = "idle" /\ BuildIdle

AgentIdle ==
  /\ apiKey = FALSE /\ model = "unset" /\ workflowValidationFailures = 0
  /\ clients = {} /\ request = [s \in {} |-> IdleRequest]
  /\ modelUnderTest = "bounded"
  /\ TurnIdle

(***************************************************************************)
(* The validator applied to every draft of the bounded set.                *)
(***************************************************************************)
InitValidator ==
  /\ draft \in Drafts
  /\ errors = <<>>
  /\ checked = FALSE
  /\ MergeIdle
  /\ IndexIdle
  /\ AgentIdle

RunValidation ==
  /\ ~checked
  /\ errors' = ValidateDraft(draft)
  /\ checked' = TRUE
  /\ UNCHANGED <<draft, mergeVars, indexVars, agentVars>>

NextValidator == RunValidation

SpecValidator == InitValidator /\ [][NextValidator]_vars

(***************************************************************************)
(* updateWorkflow applied to every current workflow and proposed update,   *)
(* and applied once more with its own payload as the update.               *)
(***************************************************************************)
InitMerge ==
  /\ currentWorkflow \in CurrentWorkflows
  /\ updates \in ProposedUpdates \cup {currentWorkflow, PayloadFields(currentWorkflow)}
  /\ payload = Absent
  /\ mergeStep = "input"
  /\ ClientIdle
  /\ ValidatorIdle
  /\ IndexIdle
  /\ AgentIdle

\* updateWorkflow(id, updates) up to the PUT.
UpdateWorkflow ==
  /\ mergeStep = "input"
  /\ payload' = MergePayload(currentWorkflow, updates)
  /\ mergeStep' = "merged"
  /\ UNCHANGED <<currentWorkflow, updates, clientVars, validatorVars, indexVars, agentVars>>

\* updateWorkflow called again with the payload it just sent as the update.
UpdateWorkflowAgain ==
  /\ mergeStep = "merged"
  /\ updates' = payload
  /\ payload' = MergePayload(currentWorkflow, payload)
  /\ mergeStep' = "remerged"
  /\ UNCHANGED <<currentWorkflow, clientVars, validatorVars, indexVars, agentVars>>

NextMerge == UpdateWorkflow \/ UpdateWorkflowAgain

SpecMerge == InitMerge /\ [][NextMerge]_vars

(***************************************************************************)
(* Specification of the runtime client: the constructor's updateInstance() *)
(* is in progress, settings are saved, and updateInstance is called again. *)
(***************************************************************************)
InitClient ==
  /\ axiosInstance = NoClient
  /\ settings \in [N8N_BASE_URL : SettingUrls, N8N_API_KEY : SettingKeys]
  /\ env \in [N8N_BASE_URL : EnvUrls, N8N_API_KEY : EnvKeys]
  /\ instanceCall = [NoInstanceCall EXCEPT !.pc = "getUrl"]
  /\ UpdateIdle
  /\ ValidatorIdle
  /\ IndexIdle
  /\ AgentIdle

notClient == <<currentWorkflow, updates, payload, mergeStep, validatorVars, indexVars, agentVars>>

\* POST /settings with N8N_BASE_URL or N8N_API_KEY in the body.
SetSetting ==
  /\ \/ \E v \in SettingUrls \ {Absent} : settings' = [settings EXCEPT !.N8N_BASE_URL = v]
     \/ \E v \in SettingKeys \ {Absent} : settings' = [settings EXCEPT !.N8N_API_KEY = v]
  /\ UNCHANGED <<axiosInstance, env, instanceCall, notClient>>

\* updateInstance(baseUrl, apiKey) is called: it awaits the first setting.
UpdateInstance ==
  /\ instanceCall.pc \in {"idle", "done"}
  /\ \E argUrl \in ArgUrls, argKey \in ArgKeys :
       instanceCall' = [NoInstanceCall EXCEPT
         !.pc = "getUrl", !.baseUrl = argUrl, !.apiKey = argKey,
         !.before = axiosInstance]
  /\ UNCHANGED <<axiosInstance, settings, env, notClient>>

\* dbUrl = await settingsService.get('N8N_BASE_URL')
GetBaseUrlSetting ==
  /\ instanceCall.pc = "getUrl"
  /\ instanceCall' = [instanceCall EXCEPT
       !.pc = "getKey", !.dbUrl = settings.N8N_BASE_URL]
  /\ UNCHANGED <<axiosInstance, settings, env, notClient>>

\* dbKey = await settingsService.get('N8N_API_KEY'), then the rest of
\* updateInstance: resolve url and key, return without them, else replace
\* the client.
GetApiKeySetting ==
  /\ instanceCall.pc = "getKey"
  /\ LET c == [instanceCall EXCEPT !.pc = "done", !.dbKey = settings.N8N_API_KEY]
     IN /\ instanceCall' = c
        /\ axiosInstance' = configured(axiosInstance, c.baseUrl, c.apiKey, c.dbUrl, c.dbKey, env)
  /\ UNCHANGED <<settings, env, notClient>>

NextClient == SetSetting \/ UpdateInstance \/ GetBaseUrlSetting \/ GetApiKeySetting

SpecClient == InitClient /\ [][NextClient]_vars

(***************************************************************************)
(* The index service on an index loaded from a built snapshot.             *)
(***************************************************************************)
InitIndex ==
  /\ nodeIndex = NullIndex
  /\ indexFile \in {"present", "missing"}
  /\ query = ""
  /\ limit = 0
  /\ results = <<>>
  /\ searchStep = "start"
  /\ ValidatorIdle
  /\ MergeIdle
  /\ AgentIdle

\* onModuleInit: loadIndex() parses the snapshot the build wrote, or, with no
\* snapshot file, builds the minimal index from the packages directory.  On
\* a file with no content JSON.parse raises; the catch logs and the index
\* stays as it was.
LoadIndex ==
  /\ searchStep = "start"
  /\ CASE indexFile = "present" -> nodeIndex' \in { buildIndex(c) : c \in Corpora }
       [] indexFile = "missing" -> nodeIndex' \in { buildMinimalIndex(f) : f \in FolderScans }
       [] indexFile = "empty" -> nodeIndex' = nodeIndex
  /\ searchStep' = "loaded"
  /\ UNCHANGED <<query, limit, results, indexFile, validatorVars, mergeVars, agentVars>>

Loaded == searchStep \in {"loaded", "searched", "details", "triggers"}

\* searchNodes(query, limit) after onModuleInit.  With a null index
\* loadIndex runs again, on the same file with the same outcome, and the
\* search returns [].
SearchNodes ==
  /\ Loaded
  /\ \E q \in Queries, l \in Limits :
       /\ query' = q
       /\ limit' = l
       /\ results' = IF IsNull(nodeIndex) THEN <<>> ELSE searchNodes(nodeIndex, q, l)
  /\ searchStep' = "searched"
  /\ UNCHANGED <<nodeIndex, indexFile, validatorVars, mergeVars, agentVars>>

\* getNodeDetails as it would be if it kept the parameters it extracted on
\* the entry of the index.
GetNodeDetails_KeepsParameters ==
  /\ Loaded
  /\ \E q \in DetailQueries :
       LET found == IF IsNull(nodeIndex) THEN Absent ELSE getNodeDetails(nodeIndex, q)
       IN /\ query' = q
          /\ results' = IF found = Absent THEN <<>> ELSE <<found>>
          /\ nodeIndex' =
               IF found = Absent THEN nodeIndex
               ELSE [nodeIndex EXCEPT !.nodes[found] = WithField(@, "parameters", "extracted")]
  /\ limit' = 0
  /\ searchStep' = "details"
  /\ UNCHANGED <<indexFile, validatorVars, mergeVars, agentVars>>

\* getNodeDetails(nodeType) after onModuleInit; null with a null index.
GetNodeDetails ==
  /\ Loaded
  /\ \E q \in DetailQueries :
       /\ query' = q
       /\ results' = LET found == IF IsNull(nodeIndex) THEN Absent
                                  ELSE getNodeDetails(nodeIndex, q)
                     IN IF found = Absent THEN <<>> ELSE <<found>>
  /\ limit' = 0
  /\ searchStep' = "details"
  /\ UNCHANGED <<nodeIndex, indexFile, validatorVars, mergeVars, agentVars>>

\* getTriggerNodes() after onModuleInit; [] with a null index.
GetTriggerNodes ==
  /\ Loaded
  /\ results' = IF IsNull(nodeIndex) THEN <<>> ELSE getTriggerNodes(nodeIndex)
  /\ query' = ""
  /\ limit' = 0
  /\ searchStep' = "triggers"
  /\ UNCHANGED <<nodeIndex, indexFile, validatorVars, mergeVars, agentVars>>

NextIndex == LoadIndex \/ SearchNodes \/ GetNodeDetails \/ GetTriggerNodes

SpecIndex == InitIndex /\ [][NextIndex]_vars

\* The service started without a usable snapshot: the file is absent, or it
\* is there with no content.
InitStartup ==
  /\ nodeIndex = NullIndex
  /\ indexFile \in {"missing", "empty"}
  /\ query = ""
  /\ limit = 0
  /\ results = <<>>
  /\ searchStep = "start"
  /\ ValidatorIdle
  /\ MergeIdle
  /\ AgentIdle

SpecStartup == InitStartup /\ [][NextIndex]_vars

(***************************************************************************)
(* The orchestration loop.  Each action is one step between two awaits of  *)
(* a request: the start of runAgent / runAgentStreaming, a node of the     *)
(* graph, a tool, an answer of the runtime, a handler of the for-await     *)
(* loop over the event stream, the code after the loop, and the catch.     *)
(* The handlers of the for-await loop contain no await, so the events of a *)
(* step are handled before the graph's next external call resolves.        *)
(***************************************************************************)
InitAgent ==
  /\ apiKey \in BOOLEAN
  /\ model = IF apiKey THEN "set" ELSE "unset"
  /\ workflowValidationFailures = 0
  /\ clients = {"s1"}
  /\ request = [s \in clients |-> IdleRequest]
  /\ modelUnderTest = "bounded"
  /\ TurnIdle
  /\ ValidatorIdle
  /\ MergeIdle
  /\ IndexIdle

\* What no step of a request changes: the state of the other services and
\* the kind of model the provider serves.
otherVars == <<validatorVars, mergeVars, indexVars, modelUnderTest, turnVars>>

\* The statuses the tool wrapper and the on_tool_start handler emit.
ToolStatusTypes == {"tool_call", "tool_result", "error"}

\* The locals r with the record of the statuses brought up to date: the
\* status emitted last by the step is r.lastStatus.
Observed(r) ==
  [r EXCEPT
     !.respondingSinceTool =
       IF r.pc = "raised" THEN @
       ELSE IF r.lastStatus \in ToolStatusTypes THEN FALSE
       ELSE IF r.lastStatus = "responding" THEN TRUE
       ELSE @,
     !.gaveUp = @ \/ (r.lastMessage.role = "tool"
                        /\ r.lastMessage.content = <<"FATAL ERROR">>)]

\* request' with the locals of s replaced.
Becomes(s, r) == request' = [request EXCEPT ![s] = Observed(r)]

Streaming(s) == request[s].mode = "stream"

\* events with more events pushed, in streaming mode only.
Pushed(s, more) == IF Streaming(s) THEN request[s].events \o more ELSE request[s].events

\* POST /settings saves or clears GEMINI_API_KEY.  initModel, at the start of a
\* request, is the only reader of the key: a save while a request runs has the
\* effect of a save before the next request starts.
SaveSettings ==
  /\ \A s \in clients : request[s].pc \in {"idle", "returned", "raised"}
  /\ apiKey' = ~apiKey
  /\ UNCHANGED <<model, workflowValidationFailures, clients, request, otherVars>>

\* The statements of runAgent and runAgentStreaming before the try: initModel
\* keeps the old model without an API key, and bindTools on a model that was
\* never created raises a TypeError no handler of the method sees (chatStream
\* catches it, writes the error event and ends the response).
StartRequest(s, m) ==
  /\ request[s].pc \in {"idle", "returned", "raised"}
  /\ model' = IF apiKey THEN "set" ELSE model
  /\ Becomes(s, [IdleRequest EXCEPT
       !.mode = m,
       !.counterAtStart = workflowValidationFailures,
       !.lastMessage = [role |-> "human", content |-> NoText, toolCall |-> NoToolCall],
       !.pc = IF model' = "unset" THEN "raised" ELSE "agent",
       !.response = IF model' = "unset" /\ m = "stream" THEN <<ErrorEvent>> ELSE <<>>,
       !.ended = model' = "unset" /\ m = "stream",
       !.lastStatus = IF model' # "unset" /\ m = "sync" THEN "thinking" ELSE "none"])
  /\ UNCHANGED <<apiKey, workflowValidationFailures, clients, otherVars>>

RunAgent(s) ==
  /\ s \in clients
  /\ StartRequest(s, "sync")

RunAgentStreaming(s) ==
  /\ s \in clients
  /\ StartRequest(s, "stream")

\* The graph runs another node only below recursionLimit, whatever is asked for.
belowCeiling_Always(r) == TRUE

\* { recursionLimit: 50 }: the graph runs another node only below the limit.
belowCeiling(r) == r.steps < RecursionLimit

\* The drafting model submits a draft in at most this many turns of a request.
MaxDraftTurns == 2

\* What modelWithTools.invoke may answer, by the model under test.
MayReply(r, content, call) ==
  CASE modelUnderTest = "bounded" ->
         call # NoToolCall => r.steps < 2 * MaxToolTurns
    [] modelUnderTest = "unbounded" ->
         call # NoToolCall => call.name = "search_nodes"
    [] modelUnderTest = "drafting" ->
         IF call = NoToolCall THEN content = <<"a">>
         ELSE /\ call.name = "create_workflow"
              /\ content = NoText
              /\ r.steps < 2 * MaxDraftTurns

\* The agent node (callModel) and shouldContinue: the model raises, or replies
\* with content and at most one tool call.
CallModel(s) ==
  LET r == request[s] IN
  /\ s \in clients
  /\ r.pc = "agent"
  /\ r.events = <<>>
  /\ belowCeiling(r)
  /\ \/ Becomes(s, [r EXCEPT
          !.steps = @ + 1,
          !.hasShownInitialThinking = TRUE,
          !.lastStatus = IF ~Streaming(s) \/ ~r.hasShownInitialThinking
                         THEN "thinking" ELSE @,
          !.pc = "failing"])
     \/ \E content \in ReplyTexts, call \in ToolCalls \cup {NoToolCall},
           format \in {"chat", "llm"} :
          \E chunks \in Chunkings(content) :
            /\ Streaming(s) => Len(r.finalResponse) + Len(content) <= MaxText
            /\ MayReply(r, content, call)
            /\ ~Streaming(s) => (format = "chat" /\ chunks = <<>>)
            /\ Becomes(s, [r EXCEPT
                 !.steps = @ + 1,
                 !.hasShownInitialThinking = TRUE,
                 !.lastStatus =
                   IF Streaming(s)
                   THEN (IF r.hasShownInitialThinking THEN @ ELSE "thinking")
                   ELSE (IF call # NoToolCall THEN "thinking" ELSE "responding"),
                 !.lastMessage = [role |-> "ai", content |-> content, toolCall |-> call],
                 !.events = Pushed(s,
                    ModelEvents(format, chunks, content, call # NoToolCall)
                      \o (IF call = NoToolCall
                          THEN <<Event("on_chain_end", content, FALSE)>> ELSE <<>>)),
                 !.pc = IF call # NoToolCall THEN "tools" ELSE "end"])
  /\ UNCHANGED <<apiKey, model, workflowValidationFailures, clients, otherVars>>

\* The tools node starts the tool call of the last message.
ToolNodeStart(s) ==
  LET r == request[s] IN
  /\ s \in clients
  /\ r.pc = "tools"
  /\ r.events = <<>>
  /\ belowCeiling(r)
  /\ Becomes(s, [r EXCEPT
       !.steps = @ + 1,
       !.events = Pushed(s, <<Event("on_tool_start", NoText, FALSE)>>),
       !.pc = "func"])
  /\ UNCHANGED <<apiKey, model, workflowValidationFailures, clients, otherVars>>

\* The tool message the tools node appends for a tool that returned or raised.
ToolMessage(reply) == [role |-> "tool", content |-> <<reply>>, toolCall |-> NoToolCall]

\* create_workflow.func as it would be with a failure count kept by each
\* request instead of the field of the service.
CreateWorkflowTool_OwnCounter(s) ==
  LET r == request[s]
      d == r.lastMessage.toolCall.args
      out == CreateWorkflowFunc(d, r.invalidRun % MAX_VALIDATION_FAILURES)
      valid == FirstInvalidType(d) = Absent /\ ValidateDraft(d) = <<>>
      invalid == FirstInvalidType(d) = Absent /\ ValidateDraft(d) # <<>>
  IN
  /\ s \in clients
  /\ r.pc = "func"
  /\ r.events = <<>>
  /\ r.lastMessage.toolCall.name = "create_workflow"
  /\ Becomes(s, [r EXCEPT
       !.lastStatus = IF out.send THEN "tool_call" ELSE "tool_result",
       !.outbox = IF out.send
                  THEN [op |-> "create", draft |-> d] ELSE @,
       !.lastMessage = IF out.send THEN @ ELSE ToolMessage(out.reply),
       !.defects = out.defects,
       !.events = IF out.send THEN @
                  ELSE Pushed(s, <<Event("on_tool_end", <<out.reply>>, FALSE)>>),
       !.invalidRun = IF valid THEN 0
                      ELSE IF invalid /\ @ < MaxRun THEN @ + 1 ELSE @,
       !.pc = IF out.send THEN "runtime" ELSE "agent"])
  /\ UNCHANGED <<apiKey, model, workflowValidationFailures, clients, otherVars>>

\* The wrapped create_workflow.func: type check, validator and failure
\* counter, then either a rejection or the call of the runtime.
CreateWorkflowTool(s) ==
  LET r == request[s]
      d == r.lastMessage.toolCall.args
      out == CreateWorkflowFunc(d, workflowValidationFailures)
      valid == FirstInvalidType(d) = Absent /\ ValidateDraft(d) = <<>>
      invalid == FirstInvalidType(d) = Absent /\ ValidateDraft(d) # <<>>
  IN
  /\ s \in clients
  /\ r.pc = "func"
  /\ r.events = <<>>
  /\ r.lastMessage.toolCall.name = "create_workflow"
  /\ workflowValidationFailures' = out.failures
  /\ Becomes(s, [r EXCEPT
       !.lastStatus = IF out.send THEN "tool_call" ELSE "tool_result",
       !.outbox = IF out.send
                  THEN [op |-> "create", draft |-> d] ELSE @,
       !.lastMessage = IF out.send THEN @ ELSE ToolMessage(out.reply),
       !.defects = out.defects,
       !.events = IF out.send THEN @
                  ELSE Pushed(s, <<Event("on_tool_end", <<out.reply>>, FALSE)>>),
       !.invalidRun = IF valid THEN 0
                      ELSE IF invalid /\ @ < MaxRun THEN @ + 1 ELSE @,
       !.pc = IF out.send THEN "runtime" ELSE "agent"])
  /\ UNCHANGED <<apiKey, model, clients, otherVars>>

\* The wrapped update_workflow.func: it hands the updates to
\* N8nService.updateWorkflow, whose payload carries their nodes and connections.
UpdateWorkflowTool(s) ==
  LET r == request[s] IN
  /\ s \in clients
  /\ r.pc = "func"
  /\ r.events = <<>>
  /\ r.lastMessage.toolCall.name = "update_workflow"
  /\ Becomes(s, [r EXCEPT
       !.lastStatus = "tool_call",
       !.outbox = [op |-> "update", draft |-> r.lastMessage.toolCall.args],
       !.pc = "runtime"])
  /\ UNCHANGED <<apiKey, model, workflowValidationFailures, clients, otherVars>>

\* A wrapped tool that reads the index or the runtime: it returns or raises,
\* and the tools node turns what it raised into a tool message.
OtherTool(s) ==
  LET r == request[s] IN
  /\ s \in clients
  /\ r.pc = "func"
  /\ r.events = <<>>
  /\ r.lastMessage.toolCall.name = "search_nodes"
  /\ \E raised \in BOOLEAN :
       Becomes(s, [r EXCEPT
         !.lastStatus = IF raised THEN "error" ELSE "tool_result",
         !.lastMessage = ToolMessage(IF raised THEN "Error: tool" ELSE "results"),
         !.events = IF raised THEN @
                    ELSE Pushed(s, <<Event("on_tool_end", <<"results">>, FALSE)>>),
         !.pc = "agent"])
  /\ UNCHANGED <<apiKey, model, workflowValidationFailures, clients, otherVars>>

\* The runtime answers createWorkflow / updateWorkflow, or the call fails.
\* The answer of the runtime as it would be if create_workflow counted a
\* creation that failed as a failure.
RuntimeResponds_CountsFailure(s) ==
  LET r == request[s] IN
  /\ s \in clients
  /\ r.pc = "runtime"
  /\ \E failed \in BOOLEAN :
       LET reply == IF failed THEN "Error: runtime"
                    ELSE IF r.outbox.op = "create" THEN "Workflow created successfully"
                    ELSE "Workflow updated successfully"
       IN /\ Becomes(s, [r EXCEPT
               !.lastStatus = IF failed THEN "error" ELSE "tool_result",
               !.lastMessage = ToolMessage(reply),
               !.events = IF failed THEN @
                          ELSE Pushed(s, <<Event("on_tool_end", <<reply>>, FALSE)>>),
               !.outbox = NoCall,
               !.pc = "agent"])
          /\ workflowValidationFailures' =
               IF failed /\ r.outbox.op = "create"
               THEN workflowValidationFailures + 1 ELSE workflowValidationFailures
  /\ UNCHANGED <<apiKey, model, clients, otherVars>>

RuntimeResponds(s) ==
  LET r == request[s] IN
  /\ s \in clients
  /\ r.pc = "runtime"
  /\ \E failed \in BOOLEAN :
       LET reply == IF failed THEN "Error: runtime"
                    ELSE IF r.outbox.op = "create" THEN "Workflow created successfully"
                    ELSE "Workflow updated successfully"
       IN Becomes(s, [r EXCEPT
            !.lastStatus = IF failed THEN "error" ELSE "tool_result",
            !.lastMessage = ToolMessage(reply),
            !.events = IF failed THEN @
                       ELSE Pushed(s, <<Event("on_tool_end", <<reply>>, FALSE)>>),
            !.outbox = NoCall,
            !.pc = "agent"])
  /\ UNCHANGED <<apiKey, model, workflowValidationFailures, clients, otherVars>>

\* The first event of the stream, which the for-await loop handles next.
NextEvent(s) == Head(request[s].events)

HasEvent(s, kind) ==
  /\ Streaming(s)
  /\ request[s].events # <<>>
  /\ NextEvent(s).event = kind

\* onToken(text) with the assignment finalResponse = text in place of +=.
Delivered_Overwrites(r, text) ==
  [r EXCEPT !.sink = Append(@, text), !.finalResponse = text,
            !.response = Append(@, SseEvent("token", text))]

\* onToken(text), which in chatStream writes the token event; finalResponse += text
Delivered(r, text) ==
  [r EXCEPT !.sink = Append(@, text), !.finalResponse = @ \o text,
            !.response = Append(@, SseEvent("token", text))]

\* chatStream after runAgentStreaming returned (last = DoneEvent) or raised
\* (last = ErrorEvent): the last write, then res.end() in the finally.
Ended(r, last) ==
  IF r.mode = "stream"
  THEN [r EXCEPT !.response = Append(@, last), !.ended = TRUE]
  ELSE r

\* The "Generating response..." status on the first token after a tool call.
StartedGenerating(r) ==
  IF ~r.hasStartedGenerating /\ r.toolCallCount > 0
  THEN [r EXCEPT !.hasStartedGenerating = TRUE, !.lastStatus = "responding"]
  ELSE r

\* The event taken off the stream.
Consumed(r) == [r EXCEPT !.events = Tail(@)]

\* on_tool_start: count the tool call and emit tool_call.
OnToolStart(s) ==
  /\ s \in clients
  /\ HasEvent(s, "on_tool_start")
  /\ Becomes(s, [Consumed(request[s]) EXCEPT
       !.toolCallCount = @ + 1, !.lastStatus = "tool_call"])
  /\ UNCHANGED <<apiKey, model, workflowValidationFailures, clients, otherVars>>

\* on_tool_end: only the summaries kept for the forced-summary prompt change.
OnToolEnd(s) ==
  /\ s \in clients
  /\ HasEvent(s, "on_tool_end")
  /\ Becomes(s, Consumed(request[s]))
  /\ UNCHANGED <<apiKey, model, workflowValidationFailures, clients, otherVars>>

\* on_chat_model_stream and on_llm_stream: a chunk with content is a token.
OnStreamChunk(s, kind) ==
  LET text == NextEvent(s).text IN
  /\ HasEvent(s, kind)
  /\ Becomes(s, IF text # NoText
                THEN Delivered(StartedGenerating(Consumed(request[s])), text)
                ELSE Consumed(request[s]))
  /\ UNCHANGED <<apiKey, model, workflowValidationFailures, clients, otherVars>>

OnChatModelStream(s) ==
  /\ s \in clients
  /\ OnStreamChunk(s, "on_chat_model_stream")

OnLlmStream(s) ==
  /\ s \in clients
  /\ OnStreamChunk(s, "on_llm_stream")

\* on_chat_model_end: a reply with text and no tool calls is captured when
\* nothing was streamed.
OnChatModelEnd(s) ==
  LET r == Consumed(request[s])
      e == NextEvent(s)
      generating == [r EXCEPT
        !.hasStartedGenerating = TRUE,
        !.lastStatus = IF r.hasStartedGenerating THEN @ ELSE "responding"]
  IN
  /\ s \in clients
  /\ HasEvent(s, "on_chat_model_end")
  /\ Becomes(s, IF e.text # NoText /\ ~e.toolCalls
                THEN (IF r.finalResponse = NoText
                      THEN Delivered(generating, e.text) ELSE generating)
                ELSE r)
  /\ UNCHANGED <<apiKey, model, workflowValidationFailures, clients, otherVars>>

\* on_chain_end of LangGraph: the last new AI message with text and no tool
\* calls is captured when the final response is still empty.
OnChainEnd(s) ==
  LET r == Consumed(request[s])
      e == NextEvent(s)
  IN
  /\ s \in clients
  /\ HasEvent(s, "on_chain_end")
  /\ Becomes(s, IF r.finalResponse = NoText /\ e.text # NoText
                THEN Delivered([r EXCEPT !.lastStatus = "responding"], e.text)
                ELSE r)
  /\ UNCHANGED <<apiKey, model, workflowValidationFailures, clients, otherVars>>

\* return value; the "complete" status precedes it.  chatStream, awaiting a
\* streaming request, goes on to write the sentinel and end the response.
Returned(r, text) ==
  Ended([r EXCEPT !.lastStatus = "complete", !.result = text, !.pc = "returned"],
        DoneEvent)

\* runAgent after app.invoke: "complete", then the content of the last message.
RunAgentReturn(s) ==
  LET r == request[s] IN
  /\ s \in clients
  /\ r.pc = "end"
  /\ ~Streaming(s)
  /\ Becomes(s, Returned(r, r.lastMessage.content))
  /\ UNCHANGED <<apiKey, model, workflowValidationFailures, clients, otherVars>>

\* if (finalResponse.length === 0), whatever the tool calls.
needsForcedSummary_AnyEmpty(r) == r.finalResponse = NoText

\* if (finalResponse.length === 0 && toolCallCount > 0)
needsForcedSummary(r) == r.finalResponse = NoText /\ r.toolCallCount > 0

\* runAgentStreaming after the for-await loop: with no text, ask for a
\* summary when tools ran, else deliver the static fallback; then "complete".
StreamingComplete(s) ==
  LET r == request[s] IN
  /\ s \in clients
  /\ r.pc = "end"
  /\ Streaming(s)
  /\ r.events = <<>>
  /\ Becomes(s,
       IF needsForcedSummary(r)
       THEN [r EXCEPT !.lastStatus = "responding", !.pc = "summary",
                      !.forcedRequests = @ + 1]
       ELSE IF r.finalResponse = NoText
       THEN LET d == Delivered(r, NoResponseFallback) IN Returned(d, d.finalResponse)
       ELSE Returned(r, r.finalResponse))
  /\ UNCHANGED <<apiKey, model, workflowValidationFailures, clients, otherVars>>

\* The forced summary as it would be without the inner try: a model.invoke
\* that raises reaches the catch of runAgentStreaming.
ForcedSummary_Rethrow(s) ==
  LET r == request[s] IN
  /\ s \in clients
  /\ r.pc = "summary"
  /\ \E raises \in BOOLEAN, answer \in ReplyTexts :
       LET text == IF answer = NoText THEN SummaryEmptyFallback ELSE answer
           d == Delivered([r EXCEPT !.forcedOutcome =
                             IF answer = NoText THEN "empty" ELSE "text"],
                          text)
       IN Becomes(s, IF raises
                     THEN [r EXCEPT !.forcedOutcome = "raised", !.pc = "failing"]
                     ELSE Returned(d, d.finalResponse))
  /\ UNCHANGED <<apiKey, model, workflowValidationFailures, clients, otherVars>>

\* The tools-disabled model.invoke of the forced summary answers with text,
\* with no text, or raises; the last two deliver a static fallback.
ForcedSummary(s) ==
  LET r == request[s] IN
  /\ s \in clients
  /\ r.pc = "summary"
  /\ \E raises \in BOOLEAN, answer \in ReplyTexts :
       LET text == IF raises THEN SummaryFailedFallback
                   ELSE IF answer = NoText THEN SummaryEmptyFallback
                   ELSE answer
           d == Delivered([r EXCEPT !.forcedOutcome =
                             IF raises THEN "raised"
                             ELSE IF answer = NoText THEN "empty" ELSE "text"],
                          text)
       IN Becomes(s, Returned(d, d.finalResponse))
  /\ UNCHANGED <<apiKey, model, workflowValidationFailures, clients, otherVars>>

\* The catch of runAgent and runAgentStreaming: "error", then rethrow.  For a
\* streaming request chatStream catches it, writes the error event and ends.
CatchError(s) ==
  LET r == request[s] IN
  /\ s \in clients
  /\ r.pc = "failing"
  /\ r.events = <<>>
  /\ Becomes(s, Ended([r EXCEPT !.lastStatus = "error", !.pc = "raised"], ErrorEvent))
  /\ UNCHANGED <<apiKey, model, workflowValidationFailures, clients, otherVars>>

\* The graph has run recursionLimit nodes and the last one asked for another:
\* app.invoke / app.streamEvents raises GraphRecursionError.
GraphRecursionError(s) ==
  LET r == request[s] IN
  /\ s \in clients
  /\ r.pc \in {"agent", "tools"}
  /\ r.events = <<>>
  /\ ~belowCeiling(r)
  /\ Becomes(s, [r EXCEPT !.ceilingHit = TRUE, !.pc = "failing"])
  /\ UNCHANGED <<apiKey, model, workflowValidationFailures, clients, otherVars>>

NextAgent ==
  \/ SaveSettings
  \/ \E s \in Sessions :
       \/ RunAgent(s) \/ RunAgentStreaming(s)
       \/ CallModel(s)
       \/ ToolNodeStart(s) \/ CreateWorkflowTool(s) \/ UpdateWorkflowTool(s)
       \/ OtherTool(s) \/ RuntimeResponds(s)
       \/ OnToolStart(s) \/ OnToolEnd(s) \/ OnChatModelStream(s) \/ OnLlmStream(s)
       \/ OnChatModelEnd(s) \/ OnChainEnd(s)
       \/ RunAgentReturn(s) \/ StreamingComplete(s) \/ ForcedSummary(s)
       \/ CatchError(s)

SpecAgent == InitAgent /\ [][NextAgent]_vars

(***************************************************************************)
(* Specification of the orchestration loop with a model that may ask for   *)
(* search_nodes on every turn, up to the recursion limit of the graph.     *)
(***************************************************************************)
InitCeiling ==
  /\ apiKey = TRUE
  /\ model = "set"
  /\ workflowValidationFailures = 0
  /\ clients = {"s1"}
  /\ request = [s \in clients |-> IdleRequest]
  /\ modelUnderTest = "unbounded"
  /\ TurnIdle
  /\ ValidatorIdle
  /\ MergeIdle
  /\ IndexIdle

NextCeiling ==
  \E s \in Sessions :
    \/ RunAgent(s) \/ RunAgentStreaming(s)
    \/ CallModel(s)
    \/ ToolNodeStart(s) \/ OtherTool(s)
    \/ OnToolStart(s) \/ OnToolEnd(s) \/ OnChatModelStream(s) \/ OnLlmStream(s)
    \/ OnChatModelEnd(s) \/ OnChainEnd(s)
    \/ RunAgentReturn(s) \/ StreamingComplete(s) \/ ForcedSummary(s)
    \/ GraphRecursionError(s)
    \/ CatchError(s)

SpecCeiling == InitCeiling /\ [][NextCeiling]_vars

\* The same, with every step that can be taken eventually taken.
SpecCeilingFair == SpecCeiling /\ WF_vars(NextCeiling)

(***************************************************************************)
(* Specification of two sessions whose synchronous requests submit drafts  *)
(* to create_workflow on the one AiAgentService of the application.        *)
(***************************************************************************)
InitShared ==
  /\ apiKey = TRUE
  /\ model = "set"
  /\ workflowValidationFailures = 0
  /\ clients = {"s1", "s2"}
  /\ request = [s \in clients |-> IdleRequest]
  /\ modelUnderTest = "drafting"
  /\ TurnIdle
  /\ ValidatorIdle
  /\ MergeIdle
  /\ IndexIdle

NextShared ==
  \E s \in Sessions :
    \/ RunAgent(s)
    \/ CallModel(s)
    \/ ToolNodeStart(s) \/ CreateWorkflowTool(s) \/ RuntimeResponds(s)
    \/ RunAgentReturn(s)
    \/ CatchError(s)

SpecShared == InitShared /\ [][NextShared]_vars

(***************************************************************************)
(* Specification of the status channel: statusSubject is a Subject of rxjs *)
(* that every emitStatus call of every session publishes to and every      *)
(* GET /ai/status subscribes to.  Subject.next hands the value to the      *)
(* subscribers it has at that moment, in turn, and keeps nothing.  The      *)
(* timestamp of a status is left out.                                      *)
(***************************************************************************)
\* The statuses emitted in a behaviour, at most.
MaxStatuses == 3

\* The subscriptions that may be opened.
Observers == {"o1", "o2"}

\* AgentStatus without the timestamp; a field that is not set is Absent.
AgentStatus(type, toolName, toolArgs) ==
  [type |-> type, toolName |-> toolName, toolArgs |-> toolArgs]

\* The statuses a request of the session emits: the tool_call status carries
\* the arguments the session's model gave.
StatusesOfSession(s) ==
  { AgentStatus("thinking", Absent, Absent),
    AgentStatus("tool_call", "create_workflow", IF s = "s1" THEN "draft 1" ELSE "draft 2"),
    AgentStatus("complete", Absent, Absent) }

\* statusSubject.next as it would be if a subscription received only the
\* statuses of the session it was opened for (o1 for s1, o2 for s2).
Delivery_OwnSession(s, status) ==
  [ o \in observers |->
      IF (o = "o1") = (s = "s1") THEN Append(received[o], status) ELSE received[o] ]

\* statusSubject.next(fullStatus): every current subscriber gets the status.
Delivery(s, status) == [ o \in observers |-> Append(received[o], status) ]

InitChannel ==
  /\ observers = {}
  /\ received = [o \in {} |-> <<>>]
  /\ subscribedAt = [o \in {} |-> 0]
  /\ emitted = <<>>
  /\ nodesDir = <<>> /\ entries = <<>> /\ buildStep = "idle"
  /\ snapshot = NullIndex
  /\ invocations = <<>> /\ statusLog = <<>> /\ turnPc = "idle"
  /\ apiKey = TRUE /\ model = "set" /\ workflowValidationFailures = 0
  /\ clients = {} /\ request = [s \in {} |-> IdleRequest]
  /\ modelUnderTest = "bounded"
  /\ ValidatorIdle
  /\ MergeIdle
  /\ IndexIdle

notChannel ==
  <<apiKey, model, workflowValidationFailures, clients, request, modelUnderTest,
    validatorVars, mergeVars, indexVars, invocations, statusLog, turnPc,
    nodesDir, entries, buildStep, snapshot>>

\* The subscription as it would be if the channel buffered what was emitted
\* before it and replayed it to a new subscriber.
Subscribe_Buffered(o) ==
  /\ o \notin observers
  /\ observers' = observers \cup {o}
  /\ received' = [ x \in observers' |->
                     IF x = o THEN [ k \in 1..Len(emitted) |-> emitted[k].status ]
                     ELSE received[x] ]
  /\ subscribedAt' = [ x \in observers' |-> IF x = o THEN Len(emitted) ELSE subscribedAt[x] ]
  /\ UNCHANGED <<emitted, notChannel>>

\* AiController.status: a client opens GET /ai/status.
Subscribe(o) ==
  /\ o \notin observers
  /\ observers' = observers \cup {o}
  /\ received' = [ x \in observers' |-> IF x = o THEN <<>> ELSE received[x] ]
  /\ subscribedAt' = [ x \in observers' |-> IF x = o THEN Len(emitted) ELSE subscribedAt[x] ]
  /\ UNCHANGED <<emitted, notChannel>>

\* The client closes the connection: the subscription is removed.
Unsubscribe(o) ==
  /\ o \in observers
  /\ observers' = observers \ {o}
  /\ received' = [ x \in observers' |-> received[x] ]
  /\ subscribedAt' = [ x \in observers' |-> subscribedAt[x] ]
  /\ UNCHANGED <<emitted, notChannel>>

\* emitStatus(status) called in a request of session s.
EmitStatus(s) ==
  /\ Len(emitted) < MaxStatuses
  /\ \E status \in StatusesOfSession(s) :
       /\ received' = Delivery(s, status)
       /\ emitted' = Append(emitted, [session |-> s, status |-> status])
  /\ UNCHANGED <<observers, subscribedAt, notChannel>>

NextChannel ==
  \/ \E o \in Observers : Subscribe(o) \/ Unsubscribe(o)
  \/ \E s \in Sessions : EmitStatus(s)

SpecChannel == InitChannel /\ [][NextChannel]_vars

(***************************************************************************)
(* Specification of the scan of the index build.                           *)
(***************************************************************************)
InitBuild ==
  /\ nodesDir \in NodesDirs
  /\ entries = <<>>
  /\ buildStep = "start"
  /\ snapshot = NullIndex
  /\ ChannelIdle
  /\ invocations = <<>> /\ statusLog = <<>> /\ turnPc = "idle"
  /\ apiKey = TRUE /\ model = "set" /\ workflowValidationFailures = 0
  /\ clients = {} /\ request = [s \in {} |-> IdleRequest]
  /\ modelUnderTest = "bounded"
  /\ ValidatorIdle
  /\ MergeIdle
  /\ IndexIdle

notBuild ==
  <<apiKey, model, workflowValidationFailures, clients, request, modelUnderTest,
    validatorVars, mergeVars, indexVars, invocations, statusLog, turnPc, channelVars>>

\* buildIndex: scanNodes(nodesDir, '', pkg.prefix) for the nodes-base package.
ScanNodes ==
  /\ buildStep = "start"
  /\ entries' = scanNodes(nodesDir, <<>>, "n8n-nodes-base")
  /\ buildStep' = "scanned"
  /\ UNCHANGED <<nodesDir, snapshot, notBuild>>

\* buildIndex after the scan: the index object filled from allEntries.
BuildIndex ==
  /\ buildStep = "scanned"
  /\ snapshot' = buildIndex(entries)
  /\ buildStep' = "built"
  /\ UNCHANGED <<nodesDir, entries, notBuild>>

NextBuild == ScanNodes \/ BuildIndex

SpecBuild == InitBuild /\ [][NextBuild]_vars

(***************************************************************************)
(* Specification of one turn of the tools node.                            *)
(***************************************************************************)
InitTurn ==
  /\ invocations \in TurnCalls
  /\ statusLog = <<>>
  /\ turnPc = "tools"
  /\ BuildIdle
  /\ apiKey = TRUE /\ model = "set" /\ workflowValidationFailures = 0
  /\ clients = {} /\ request = [s \in {} |-> IdleRequest]
  /\ modelUnderTest = "bounded"
  /\ ValidatorIdle
  /\ MergeIdle
  /\ IndexIdle

notTurn ==
  <<apiKey, model, workflowValidationFailures, clients, request, modelUnderTest,
    validatorVars, mergeVars, indexVars, buildVars>>

\* tool.func(args) up to the await: the tool_call status, then originalFunc.
ToolFuncStart(i) ==
  /\ i \in DOMAIN invocations
  /\ invocations[i].pc = "pending"
  /\ invocations' = [invocations EXCEPT ![i].pc = "running"]
  /\ statusLog' = Append(statusLog, Status("tool_call", i))
  /\ UNCHANGED <<turnPc, notTurn>>

\* originalFunc returned: the status after it, then return result.
ToolFuncReturns(i) ==
  /\ i \in DOMAIN invocations
  /\ invocations[i].pc = "running"
  /\ \E result \in ToolReturns(invocations[i].tool) :
       invocations' = [invocations EXCEPT ![i].pc = "returned", ![i].returned = result]
  /\ statusLog' = Append(statusLog, Status(afterStatus(FALSE), i))
  /\ UNCHANGED <<turnPc, notTurn>>

\* originalFunc raised: the status after it, then throw error.
ToolFuncRaises(i) ==
  /\ i \in DOMAIN invocations
  /\ invocations[i].pc = "running"
  /\ invocations' = [invocations EXCEPT ![i].pc = "raised"]
  /\ statusLog' = Append(statusLog, Status(afterStatus(TRUE), i))
  /\ UNCHANGED <<turnPc, notTurn>>

\* The edge from "tools" to "agent": callModel starts with its thinking status.
NextModelCall ==
  /\ turnPc = "tools"
  /\ toolsResolved(invocations)
  /\ turnPc' = "agent"
  /\ statusLog' = Append(statusLog, Status("thinking", 0))
  /\ UNCHANGED <<invocations, notTurn>>

NextTurn ==
  \/ \E i \in 1..MaxCallsPerTurn :
       ToolFuncStart(i) \/ ToolFuncReturns(i) \/ ToolFuncRaises(i)
  \/ NextModelCall

SpecTurn == InitTurn /\ [][NextTurn]_vars

(***************************************************************************)
(* Claims about the validator.                                             *)
(***************************************************************************)
NodeNameSet(d) == Range(nodeNames(d))

HasNode(d, n, Test(_)) == n \in NodeNameSet(d) /\ Test(nodeTypes(d, n))

\* A draft made of exactly a trigger t and a regular node a, with t --main--> a
\* and no edge leaving a.
IsTerminalChain(d, t, a) ==
  /\ t # a
  /\ NodeNameSet(d) = {t, a}
  /\ HasNode(d, t, isTriggerType)
  /\ HasNode(d, a, isRegularType)
  /\ [src |-> t, kind |-> "main", node |-> a] \in d.edges
  /\ \A e \in d.edges : e.src # a

\* C6: a draft made of a trigger connected by a main edge to a regular node
\* that has no outgoing edge gets zero defects, and in no draft is a regular
\* node that has an incoming edge named by a defect other than unreachability
\* (there is no defect for a regular node lacking an outgoing edge).
C6_TerminalChainValid ==
  checked =>
    /\ \A t \in Names, a \in Names : IsTerminalChain(draft, t, a) => errors = <<>>
    /\ \A n \in Names :
         (HasNode(draft, n, isRegularType) /\ n \in connectedAsTarget(draft)) =>
           \A i \in 1..Len(errors) :
             n \in Range(errors[i].names) => errors[i].class = "unreachable"

C6_Witness ==
  /\ checked
  /\ IsTerminalChain(draft, "T", "A")
  /\ "A" \notin draft.keys
  /\ errors = <<>>

\* The draft without node n and without n as a source key.
WithoutNode(d, n) ==
  [nodes |-> SelectSeq(d.nodes, LAMBDA x : x.name # n),
   keys |-> d.keys \ {n},
   edges |-> d.edges]

\* n is a regular node of d that no edge leaves or enters.
IsIsolatedRegular(d, n) ==
  /\ HasNode(d, n, isRegularType)
  /\ \A e \in d.edges : e.src # n /\ e.node # n

\* C7: a regular node that is neither source nor target of any edge, in a
\* draft that is otherwise defect-free, gets exactly one defect, of class
\* disconnected, naming it, whether or not it is a key of the connection map.
C7_IsolatedNodeDisconnected ==
  checked =>
    \A n \in Names :
      (IsIsolatedRegular(draft, n) /\ ValidateDraft(WithoutNode(draft, n)) = <<>>) =>
        errors = <<Defect("disconnected", <<n>>)>>

(***************************************************************************)
(* Claims about the update-merge.                                          *)
(***************************************************************************)
Merged == mergeStep \in {"merged", "remerged"}

\* The update carries the same name, nodes, connections and settings as the
\* current workflow, and every node identifier of the current workflow is
\* well-formed.
IsIdenticalUpdate ==
  /\ DOMAIN PayloadFields(currentWorkflow) = {"name", "nodes", "connections", "settings"}
  /\ PayloadFields(updates) = PayloadFields(currentWorkflow)
  /\ \A i \in 1..Len(currentWorkflow.nodes) : isValidId(currentWorkflow.nodes[i])

MatchesWellFormed(i, o) ==
  /\ Has(updates.nodes[i], "name")
  /\ currentWorkflow.nodes[o].name = updates.nodes[i].name
  /\ isValidId(currentWorkflow.nodes[o])

\* C9: a proposed node whose name matches an existing node with a well-formed
\* identifier appears in the payload with the existing identifier and the
\* existing credential bindings, whatever the proposal carries, and with the
\* existing parameters overridden key by key by the proposal's parameters.
C9_MatchedKeepsIdAndCredentials ==
  (Merged /\ Has(updates, "nodes")) =>
    \A i \in 1..Len(updates.nodes), o \in 1..Len(currentWorkflow.nodes) :
      MatchesWellFormed(i, o) =>
        LET agentNode == updates.nodes[i]
            originalNode == currentWorkflow.nodes[o]
            out == payload.nodes[i]
            proposed == IF Has(agentNode, "parameters") THEN agentNode.parameters
                        ELSE EmptyObject
        IN /\ out.id = originalNode.id
           /\ Has(out, "credentials") <=> Has(originalNode, "credentials")
           /\ Has(out, "credentials") => out.credentials = originalNode.credentials
           /\ DOMAIN out.parameters = (DOMAIN originalNode.parameters) \cup (DOMAIN proposed)
           /\ \A k \in DOMAIN out.parameters :
                out.parameters[k] = IF k \in DOMAIN proposed THEN proposed[k]
                                    ELSE originalNode.parameters[k]

C9_Witness ==
  /\ mergeStep = "merged"
  /\ Has(updates, "nodes")
  /\ \E i \in 1..Len(updates.nodes) :
       /\ MatchesWellFormed(i, 1)
       /\ Has(updates.nodes[i], "id") /\ updates.nodes[i].id = UUID3
       /\ Has(updates.nodes[i], "credentials")
       /\ Has(updates.nodes[i], "parameters")
       /\ payload.nodes[i].id = UUID1
       /\ payload.nodes[i].parameters = [to |-> "z", subject |-> "y"]

\* The identifiers the current workflow and the update carry.
GivenIds ==
  { currentWorkflow.nodes[o].id :
      o \in { j \in 1..Len(currentWorkflow.nodes) : Has(currentWorkflow.nodes[j], "id") } }
    \cup { updates.nodes[i].id :
             i \in { j \in 1..Len(updates.nodes) : Has(updates.nodes[j], "id") } }

\* C27: after the merge of an update that carries a node list, every matched
\* node whose existing identifier was malformed and every unmatched proposed
\* node without a well-formed identifier carries a generated well-formed
\* identifier that no given node and no other such node carries, and every
\* node of the payload has a well-formed identifier.
C27_PayloadIdsWellFormed ==
  (mergeStep = "merged" /\ Has(updates, "nodes")) =>
    /\ Len(payload.nodes) = Len(updates.nodes)
    /\ \A i \in 1..Len(updates.nodes) :
         /\ isValidId(payload.nodes[i])
         /\ NeedsNewId(currentWorkflow.nodes, updates.nodes[i]) =>
              /\ payload.nodes[i].id \in Range(GeneratedUUIDs)
              /\ payload.nodes[i].id \notin GivenIds
              /\ \A j \in 1..Len(updates.nodes) :
                   j # i => payload.nodes[j].id # payload.nodes[i].id

\* A matched node whose existing identifier was malformed and an unmatched
\* node that proposed a malformed identifier, both with generated identifiers.
C27_Witness ==
  /\ mergeStep = "merged"
  /\ Has(updates, "nodes")
  /\ Len(updates.nodes) = 2
  /\ findOriginal(currentWorkflow.nodes, updates.nodes[1]) # 0
  /\ ~isValidId(currentWorkflow.nodes[findOriginal(currentWorkflow.nodes, updates.nodes[1])])
  /\ findOriginal(currentWorkflow.nodes, updates.nodes[2]) = 0
  /\ Has(updates.nodes[2], "id") /\ updates.nodes[2].id = "node-1"
  /\ payload.nodes[1].id = generateUUID(1)
  /\ payload.nodes[2].id = generateUUID(2)

(***************************************************************************)
(* Claims about the node index.                                            *)
(***************************************************************************)
\* The entries of the index, by type.
IndexEntries == { nodeIndex.nodes[t] : t \in DOMAIN nodeIndex.nodes }

\* C10: a search for the exact display name of an entry of the index, with a
\* limit of at least 1, returns that entry first.
C10_ExactDisplayNameFirst ==
  (searchStep = "searched" /\ limit >= 1) =>
    \A e \in IndexEntries :
      query = e.displayName => (Len(results) >= 1 /\ results[1] = e.type)

\* C28: when the lowered and trimmed query is an alias of the index whose
\* target is an entry, a search with a limit of at least 1 returns the target
\* first, ahead of every entry matched by name, display name, description or
\* type.
C28_AliasTargetFirst ==
  (searchStep = "searched" /\ limit >= 1) =>
    LET lowerQuery == trim(toLowerCase(query))
    IN (lowerQuery \in DOMAIN nodeIndex.aliases
          /\ nodeIndex.aliases[lowerQuery] \in DOMAIN nodeIndex.nodes) =>
         (Len(results) >= 1 /\ results[1] = nodeIndex.aliases[lowerQuery])

\* C29: after startup with the snapshot file absent, or present with no
\* content, the index is not null: it is the index of the scan of the
\* packages directory, and the results of a search or a details lookup are
\* identifiers of that scan.
C29_FallbackToScan ==
  Loaded =>
    /\ ~IsNull(nodeIndex)
    /\ nodeIndex \in { buildMinimalIndex(f) : f \in FolderScans }
    /\ \A i \in 1..Len(results) : results[i] \in DOMAIN nodeIndex.nodes

\* The aliases the loaded index was given for an entry: the ones the entry
\* registers itself, and in a snapshot the manual aliases that target it.
RegisteredAliases(e) ==
  { aliasesOf(e)[k] : k \in 1..Len(aliasesOf(e)) }
    \cup (IF indexFile = "present"
          THEN { manualAliases[k].alias :
                   k \in { j \in 1..Len(manualAliases) : manualAliases[j].nodeType = e.type } }
          ELSE {})

\* C11: for every entry of the loaded index, getNodeDetails returns that
\* entry when it is asked for the entry's type, for its display name in any
\* letter case, or for an alias registered for it.
C11_DetailsResolveToEntry ==
  searchStep = "details" =>
    \A e \in IndexEntries :
      ( \/ query = e.type
        \/ toLowerCase(query) = toLowerCase(e.displayName)
        \/ query \in RegisteredAliases(e) )
      => results = <<e.type>>

\* C12: getTriggerNodes returns exactly the entries of the loaded index whose
\* isTrigger flag is set, each once, for a snapshot and for the minimal index.
C12_TriggerNodesExact ==
  searchStep = "triggers" =>
    /\ \A i \in 1..Len(results) :
         results[i] \in DOMAIN nodeIndex.nodes /\ nodeIndex.nodes[results[i]].isTrigger
    /\ \A e \in IndexEntries :
         e.isTrigger => Cardinality({ i \in 1..Len(results) : results[i] = e.type }) = 1

(***************************************************************************)
(* Claims about the orchestration loop.                                    *)
(***************************************************************************)
\* C1: whenever create_workflow or update_workflow has a call of the runtime
\* in flight, the draft it carries has an empty defect list under the
\* validator's checks: a draft with any defect never reaches the runtime.
C1_RuntimeOnlyValidDrafts ==
  \A s \in clients :
    request[s].outbox.op \in {"create", "update"} =>
      /\ FirstInvalidType(request[s].outbox.draft) = Absent
      /\ ValidateDraft(request[s].outbox.draft) = <<>>

\* A create_workflow submission of session s is being answered in this step.
CreateSubmission(s) ==
  /\ request[s].pc = "func"
  /\ request[s].lastMessage.toolCall.name = "create_workflow"
  /\ request'[s].pc # "func"

\* What C2 says of one submission of a session that runs alone and started
\* with the counter at 0.
C2_Step(s) ==
  LET r == request[s]
      d == r.lastMessage.toolCall.args
      nth == r.invalidRun + 1
      reply == request'[s].lastMessage.content
  IN (CreateSubmission(s) /\ clients = {s} /\ r.counterAtStart = 0
        /\ FirstInvalidType(d) = Absent)
     => IF ValidateDraft(d) # <<>>
        THEN /\ nth \in {1, 2} =>
                  (reply = <<"ERROR">> /\ workflowValidationFailures' = nth)
             /\ nth = 3 => reply = <<"FATAL ERROR">>
        ELSE workflowValidationFailures' = 0

\* C2: in a session that runs alone and starts with the failure counter at 0,
\* the first and the second invalid create_workflow submission in a row are
\* answered with the retryable ERROR message and counted, the third with the
\* give-up message; a valid submission sets the counter to 0, so the invalid
\* submission after it is the first again.
C2_FailureCeiling == [][\A s \in clients : C2_Step(s)]_vars

\* The third invalid submission in a row of a request that started at 0 has
\* just been answered with the give-up message.
C2_Witness ==
  \E s \in clients :
    /\ clients = {s}
    /\ request[s].counterAtStart = 0
    /\ request[s].invalidRun = 3
    /\ request[s].lastMessage = ToolMessage("FATAL ERROR")

\* C3: a runAgentStreaming request that returned has returned a non-empty
\* string and its sink has received at least one non-empty token.
C3_StreamingNonEmpty ==
  \A s \in clients :
    (request[s].mode = "stream" /\ request[s].pc = "returned") =>
      /\ request[s].result # NoText
      /\ \E i \in 1..Len(request[s].sink) : request[s].sink[i] # NoText

\* A streaming request with tool calls and no text returned the static
\* fallback after the forced summary raised.
C3_Witness ==
  \E s \in clients :
    /\ request[s].mode = "stream"
    /\ request[s].pc = "returned"
    /\ request[s].toolCallCount > 0
    /\ request[s].result = SummaryFailedFallback
    /\ request[s].sink = <<SummaryFailedFallback>>

\* C4: a request that returned ended with the status "complete" and a request
\* that raised ended with the status "error".
C4_TerminalStatus ==
  \A s \in clients :
    /\ request[s].pc = "returned" => request[s].lastStatus = "complete"
    /\ request[s].pc = "raised" => request[s].lastStatus = "error"

\* C5: a runAgent request that ended with the status "complete" returned a
\* non-empty text.
C5_SyncCompleteNonEmpty ==
  \A s \in clients :
    (request[s].mode = "sync" /\ request[s].pc = "returned"
       /\ request[s].lastStatus = "complete") =>
      request[s].result # NoText

\* The token events of a response, in the order they were written.
TokenEvents(tokens) == [ i \in 1..Len(tokens) |-> SseEvent("token", tokens[i]) ]

\* C13: whenever chatStream has ended a response, the response is the token
\* events in the order the loop delivered them followed by the sentinel
\* event, which is the last event written; this includes the requests whose
\* agent run raised.
C13_StreamEndsWithSentinel ==
  \A s \in clients :
    request[s].ended =>
      request[s].response = TokenEvents(request[s].sink) \o <<DoneEvent>>

(***************************************************************************)
(* Claims about the runtime client.                                        *)
(***************************************************************************)
\* The first value of the sequence that is something, or Absent.
FirstPresent(values) ==
  LET present == { i \in 1..Len(values) : ~Falsy(values[i]) }
  IN IF present = {} THEN Absent
     ELSE values[CHOOSE i \in present : \A j \in present : i <= j]

\* C14: when a call of updateInstance is done, the base URL and the API key
\* were each taken from the argument, else from the setting it read, else
\* from the environment; the client is the one created from them, and when
\* either is nothing the client is the one from before the call.
C14_ResolutionPrecedence ==
  instanceCall.pc = "done" =>
    LET c == instanceCall
        url == FirstPresent(<<c.baseUrl, c.dbUrl, env.N8N_BASE_URL>>)
        key == FirstPresent(<<c.apiKey, c.dbKey, env.N8N_API_KEY>>)
    IN IF url = Absent \/ key = Absent
       THEN axiosInstance = c.before
       ELSE axiosInstance = axiosCreate(url, key)

\* A call given a base URL and no key, with both settings saved and both
\* environment values set, has created the client from the argument's URL
\* and the saved key.
C14_Witness ==
  /\ instanceCall.pc = "done"
  /\ instanceCall.baseUrl = "http://a//" /\ instanceCall.dbUrl = "http://d"
  /\ instanceCall.apiKey = Absent /\ instanceCall.dbKey = "kd"
  /\ env = [N8N_BASE_URL |-> "http://e/", N8N_API_KEY |-> "ke"]
  /\ axiosInstance = [baseURL |-> "http://a/api/v1", key |-> "kd"]
  /\ instanceCall.before # axiosInstance

(***************************************************************************)
(* Claims about the four checks of the validator.                          *)
(***************************************************************************)
\* Some defect of the errors array names n.
NamedByDefect(n) == \E i \in 1..Len(errors) : n \in Range(errors[i].names)

\* n has an edge of this kind leaving it.
HasOutgoingOfKind(d, n, kind) == \E e \in d.edges : e.src = n /\ e.kind = kind

\* C15: in every draft, a trigger with no outgoing edge of kind main is named
\* by a defect, also when it is a key of the connection map with no targets
\* or with targets under other kinds only.
C15_TriggerNeedsMainEdge ==
  checked =>
    \A t \in Names :
      (HasNode(draft, t, isTriggerType) /\ ~HasOutgoingOfKind(draft, t, "main"))
        => NamedByDefect(t)

\* The connection kind a sub-node of this type attaches to its parent with.
OwnKind(nodeType) ==
  IF includes(nodeType, "embeddings") THEN "ai_embedding"
  ELSE IF includes(nodeType, "DataLoader") THEN "ai_document"
  ELSE IF includes(nodeType, "textSplitter") THEN "ai_textSplitter"
  ELSE IF includes(nodeType, "memory") THEN "ai_memory"
  ELSE "ai_tool"

\* C16: in every draft, a sub-node of one of the five categories (embedding,
\* document loader, text splitter, memory, tool provider) with no outgoing
\* edge of its own kind is named by a defect, whatever edges of other kinds
\* leave it.
C16_SubNodeNeedsOwnKind ==
  checked =>
    \A n \in Names :
      (HasNode(draft, n, isLangchainSubType)
         /\ ~HasOutgoingOfKind(draft, n, OwnKind(nodeTypes(draft, n))))
        => NamedByDefect(n)

\* The nodes an edge path leads to from some trigger of the draft.
RECURSIVE ReachableFrom(_, _)
ReachableFrom(d, from) ==
  LET more == from \cup { e.node : e \in { x \in d.edges : x.src \in from } }
  IN IF more = from THEN from ELSE ReachableFrom(d, more)

ReachableFromTrigger(d) ==
  ReachableFrom(d, { n \in NodeNameSet(d) : isTriggerType(nodeTypes(d, n)) })

UnreachableRegular(d) ==
  { n \in NodeNameSet(d) : isRegularType(nodeTypes(d, n)) } \ ReachableFromTrigger(d)

\* C17: in every accepted draft (no defect), every regular node is reachable
\* from some trigger.
C17_AcceptedMeansReachable ==
  (checked /\ errors = <<>>) => UnreachableRegular(draft) = {}

\* C18: when a draft has a trigger without outgoing edge or a disconnected
\* node, and also regular nodes no trigger reaches, every one of those
\* unreachable nodes is named by a defect of the same list.
C18_AllClassesInOnePass ==
  checked =>
    ( (\E i \in 1..Len(errors) : errors[i].class \in {"trigger_no_outgoing", "disconnected"})
      => \A n \in UnreachableRegular(draft) : NamedByDefect(n) )

(***************************************************************************)
(* Claims about validation as a function of the draft.                     *)
(***************************************************************************)
\* What C19 says of one create_workflow call of session s that passes the
\* type check.
C19_Step(s) ==
  LET d == request[s].lastMessage.toolCall.args
  IN (CreateSubmission(s) /\ FirstInvalidType(d) = Absent) =>
       /\ request'[s].defects = ValidateDraft(d)
       /\ UNCHANGED <<apiKey, model, clients, otherVars>>
       /\ \A t \in clients \ {s} : request'[t] = request[t]
       /\ request'[s].sink = request[s].sink
       /\ ValidateDraft(d) # <<>> => request'[s].outbox = request[s].outbox

StreamEnds(s) ==
  /\ request[s].pc = "end" /\ Streaming(s)
  /\ request'[s].pc # "end"

\* What C20 says of one step of session s: the tools-disabled request is
\* issued in the step that ends the event stream, exactly when a tool call
\* was started and no character was delivered, and in no other step.
C20_Step(s) ==
  LET issued == request'[s].forcedRequests = request[s].forcedRequests + 1
  IN /\ StreamEnds(s) =>
          (issued <=> (request[s].toolCallCount >= 1 /\ Concat(request[s].sink) = NoText))
     /\ ~StreamEnds(s) => ~issued

\* C20: in a streaming request the tools-disabled model request is issued if
\* and only if the event stream ended with at least one tool call started
\* and no character delivered, at most once per request, and when it returns
\* empty text the last token delivered is the static fallback string.
C20_ForcedSummaryOnce ==
  /\ [][\A s \in clients : C20_Step(s)]_vars
  /\ [](\A s \in clients :
          /\ request[s].forcedRequests <= 1
          /\ request[s].forcedOutcome = "empty" =>
                /\ request[s].sink = <<SummaryEmptyFallback>>
                /\ request[s].result = SummaryEmptyFallback)

\* A streaming request whose tool call ran and whose model never sent text
\* got empty text from the one forced request and returned the fallback.
C20_Witness ==
  \E s \in clients :
    /\ request[s].pc = "returned"
    /\ request[s].toolCallCount >= 1
    /\ request[s].forcedRequests = 1
    /\ request[s].forcedOutcome = "empty"
    /\ request[s].sink = <<SummaryEmptyFallback>>

\* C21: a streaming request whose forced-summary request returned empty
\* text or raised has returned: its last status is "complete", its result
\* is the non-empty static fallback, which is the one token delivered, and
\* chatStream ended the response with the sentinel, not with an error event.
C21_SilenceIsNotAnError ==
  \A s \in clients :
    request[s].forcedOutcome \in {"empty", "raised"} =>
      /\ request[s].pc = "returned"
      /\ request[s].lastStatus = "complete"
      /\ request[s].result # NoText
      /\ request[s].result \in {SummaryEmptyFallback, SummaryFailedFallback}
      /\ request[s].sink = <<request[s].result>>
      /\ request[s].response = <<SseEvent("token", request[s].result), DoneEvent>>

\* The forced-summary request of a streaming request raised and the request
\* returned the fallback for it.
C21_Witness ==
  \E s \in clients :
    /\ request[s].forcedOutcome = "raised"
    /\ request[s].toolCallCount >= 1
    /\ request[s].pc = "returned"
    /\ request[s].result = SummaryFailedFallback

(***************************************************************************)
(* Claims about the recursion ceiling.                                     *)
(***************************************************************************)
\* A request of s is between its start and its return or raise.
Running(s) == s \in clients /\ request[s].pc \notin {"idle", "returned", "raised"}

Finished(s) == s \in clients /\ request[s].pc \in {"returned", "raised"}

\* C22: with a model that may ask for a tool on every turn, the model and
\* tool steps of a request never exceed the recursion limit of 50, and every
\* request that was started returns or raises.
C22_RequestsTerminate ==
  /\ [](\A s \in clients : request[s].steps <= RecursionLimit)
  /\ \A s \in Sessions : Running(s) ~> Finished(s)

\* A request ran 50 model and tool steps, was stopped by the graph and ended.
C22_Witness ==
  \E s \in clients :
    /\ request[s].steps = RecursionLimit
    /\ request[s].ceilingHit
    /\ request[s].toolCallCount >= 1
    /\ request[s].pc = "raised"

\* C23: a request the graph stopped at the recursion limit goes on to return,
\* with status "complete", the text produced so far; it does not raise.
C23_CeilingReturnsPartialText ==
  \A s \in clients :
    request[s].ceilingHit =>
      /\ request[s].pc \notin {"failing", "raised"}
      /\ request[s].lastStatus # "error"
      /\ request[s].pc = "returned" => request[s].lastStatus = "complete"

(***************************************************************************)
(* Claims about the statuses of a turn of the tools node.                  *)
(***************************************************************************)
\* The types of the statuses invocation i has emitted, in order.
StatusesOf(i) ==
  LET own == SelectSeq(statusLog, LAMBDA st : st.call = i)
  IN [ k \in 1..Len(own) |-> own[k].type ]

C26_RespondingBeforeComplete ==
  \A s \in clients :
    (request[s].pc = "returned" /\ request[s].lastStatus = "complete") =>
      request[s].respondingSinceTool

(***************************************************************************)
(* Claims about the scan of the index build.                               *)
(***************************************************************************)
\* The folders with a .node.ts file that the scan visits under items, each
\* with its code path.
RECURSIVE NodeFolders(_, _)
NodeFolders(items, relativePath) ==
  UNION { LET folder == items[i]
              path == Append(relativePath, folder.item)
          IN IF isSkippedItem(folder.item) THEN {}
             ELSE IF Len(folder.files) > 0
             THEN { [folder |-> folder, codePath |-> <<"n8n-nodes-base">> \o path] }
             ELSE NodeFolders(folder.children, path) :
          i \in 1..Len(items) }

\* The number of node types a folder holds: its main file, and its trigger
\* file when the main file is not the trigger file.
NodeTypesIn(folder) ==
  IF findTriggerFile(folder.files) # 0
       /\ ~folder.files[findMainNodeFile(folder.files)].isTriggerFile
  THEN 2 ELSE 1

\* C30: after the scan every node type of every visited folder has an entry,
\* also when its file could not be read or no machine name was matched, and
\* the folders after it have theirs.
C30_FailedExtractionStillIndexed ==
  buildStep = "scanned" =>
    \A nf \in NodeFolders(nodesDir, <<>>) :
      Cardinality({ k \in 1..Len(entries) : entries[k].codePath = nf.codePath })
        = NodeTypesIn(nf.folder)

(***************************************************************************)
(* Claims about the failure counter.                                       *)
(***************************************************************************)
\* Session s runs the body of create_workflow.func in this step.
SubmitsDraft(s) ==
  /\ s \in clients
  /\ request[s].pc = "func"
  /\ request[s].lastMessage.toolCall.name = "create_workflow"
  /\ request'[s].pc # "func"

\* The reply a session holds is the give-up message.
GaveUp(r) == r.lastMessage = ToolMessage("FATAL ERROR")

\* C32: after create_workflow returned the give-up message in a request, no
\* further create_workflow submission of that request is processed (neither
\* validated nor sent to the runtime), and a request never has more than
\* MAX_VALIDATION_FAILURES invalid submissions in a row processed.
C32_Step ==
  \A s \in Sessions :
    SubmitsDraft(s) =>
      /\ ~request[s].gaveUp
      /\ request'[s].invalidRun <= MAX_VALIDATION_FAILURES

C32_AbandonsAfterGiveUp == [][C32_Step]_vars

\* C31: the failure counter is one for all sessions.  An invalid submission
\* of a session gets the give-up message exactly when it is the third one
\* counted since the last reset, whoever submitted the other two; a valid
\* submission of a session sets the count to 0, whoever accumulated it.
C31_Step ==
  \A s \in Sessions :
    SubmitsDraft(s) =>
      LET d == request[s].lastMessage.toolCall.args
          typed == FirstInvalidType(d) = Absent
      IN /\ (typed /\ ValidateDraft(d) # <<>>) =>
              /\ GaveUp(request'[s])
                    <=> workflowValidationFailures + 1 >= MAX_VALIDATION_FAILURES
              /\ workflowValidationFailures' =
                    IF GaveUp(request'[s]) THEN 0 ELSE workflowValidationFailures + 1
         /\ (typed /\ ValidateDraft(d) = <<>>) => workflowValidationFailures' = 0

C31_CounterSharedBySessions == [][C31_Step]_vars

\* Session s1 holds the give-up message after its first invalid submission:
\* the two counted before it were submitted by s2, in a request still running.
C31_Witness ==
  /\ clients = {"s1", "s2"}
  /\ GaveUp(request["s1"])
  /\ request["s1"].invalidRun = 1
  /\ request["s1"].counterAtStart = 0
  /\ request["s2"].invalidRun = 2
  /\ request["s2"].pc = "agent"
  /\ workflowValidationFailures = 0

(***************************************************************************)
(* Claims about the status channel.                                        *)
(***************************************************************************)
\* The statuses emitted after the first n emissions, in order.
EmittedAfter(n) ==
  [ k \in 1..(Len(emitted) - n) |-> emitted[n + k].status ]

\* C33: emitting a status is possible in every state, with no subscription
\* as with several; a subscription holds exactly the statuses emitted since
\* it was opened, in emission order, so a status emitted with no
\* subscription open reaches none that is opened later.
C33_EmissionNeverBlocks ==
  /\ Len(emitted) < MaxStatuses => \A s \in Sessions : ENABLED EmitStatus(s)
  /\ \A o \in observers : received[o] = EmittedAfter(subscribedAt[o])

\* A status was emitted with no subscription open, then o1 subscribed and
\* received the two statuses emitted after that, in order, and nothing else.
C33_Witness ==
  /\ Len(emitted) = 3
  /\ "o1" \in observers
  /\ subscribedAt["o1"] = 1
  /\ Len(received["o1"]) = 2
  /\ received["o1"][1] = emitted[2].status
  /\ received["o1"][2] = emitted[3].status
  /\ emitted[2].status # emitted[3].status

\* C38: a status carries no session identity, and every subscription
\* receives the statuses of every session: each status emitted by any
\* session since a subscription was opened is in it, tool name and
\* arguments included.
C38_ObserversSeeAllSessions ==
  /\ \A s \in Sessions : \A status \in StatusesOfSession(s) :
       DOMAIN status = {"type", "toolName", "toolArgs"}
  /\ \A o \in observers : \A k \in 1..Len(emitted) :
       k > subscribedAt[o] =>
         /\ Len(received[o]) >= k - subscribedAt[o]
         /\ received[o][k - subscribedAt[o]] = emitted[k].status

\* Two subscriptions open from the start hold the same statuses, among them
\* the create_workflow arguments of both sessions.
C38_Witness ==
  /\ observers = {"o1", "o2"}
  /\ subscribedAt["o1"] = 0 /\ subscribedAt["o2"] = 0
  /\ received["o1"] = received["o2"]
  /\ \E i, j \in 1..Len(emitted) :
       /\ emitted[i].session = "s1" /\ emitted[i].status.toolArgs = "draft 1"
       /\ emitted[j].session = "s2" /\ emitted[j].status.toolArgs = "draft 2"
       /\ received["o1"][i].toolArgs = "draft 1"
       /\ received["o1"][j].toolArgs = "draft 2"

(***************************************************************************)
(* Claims about the reads of the index.                                    *)
(***************************************************************************)
\* A step of searchNodes, getNodeDetails or getTriggerNodes on an index that
\* has been constructed.
ReadsIndex ==
  /\ Loaded
  /\ ~IsNull(nodeIndex)
  /\ <<query, limit, results, searchStep>>' # <<query, limit, results, searchStep>>

\* C34: once the index is constructed, every read leaves it as it was and
\* neither reloads the snapshot nor rebuilds the index; getNodeDetails does
\* not write the parameters it extracts onto the entry.
C34_Step ==
  ReadsIndex =>
    /\ nodeIndex' = nodeIndex
    /\ indexFile' = indexFile
    /\ \A t \in DOMAIN nodeIndex'.nodes : "parameters" \notin DOMAIN nodeIndex'.nodes[t]

C35_TokensAreTheResponse ==
  \A s \in clients :
    request[s].mode = "stream" =>
      /\ Concat(request[s].sink) = request[s].finalResponse
      /\ request[s].pc = "returned" => request[s].result = Concat(request[s].sink)

\* A streaming request returned after a tool call with a response that was
\* delivered as two tokens.
C35_Witness ==
  \E s \in clients :
    /\ request[s].mode = "stream"
    /\ request[s].pc = "returned"
    /\ request[s].toolCallCount > 0
    /\ Len(request[s].sink) = 2
    /\ request[s].sink[1] # request[s].sink[2]
    /\ request[s].result = request[s].sink[1] \o request[s].sink[2]

(***************************************************************************)
(* Claims about the values of the failure counter.                         *)
(***************************************************************************)
\* C36: between the steps of create_workflow the counter is 0, 1 or 2 (the
\* call that raises it to MAX_VALIDATION_FAILURES sets it back to 0 before
\* it returns); a submission rejected for a node type without a dot leaves
\* the counter as it was, runs none of the checks of the validator and
\* sends nothing to the runtime.
C36_Step ==
  \A s \in Sessions :
    (SubmitsDraft(s) /\ FirstInvalidType(request[s].lastMessage.toolCall.args) # Absent) =>
      /\ workflowValidationFailures' = workflowValidationFailures
      /\ request'[s].defects = <<>>
      /\ request'[s].outbox = NoCall
      /\ request'[s].pc = "agent"
      /\ request'[s].lastMessage = ToolMessage("Error: Node")

C36_CounterBelowCeiling ==
  /\ [](workflowValidationFailures \in 0..(MAX_VALIDATION_FAILURES - 1))
  /\ [][C36_Step]_vars

\* With the counter at 2 after the invalid submissions of both sessions, a
\* submission of s1 was rejected for its node type.
C36_Witness ==
  /\ workflowValidationFailures = MAX_VALIDATION_FAILURES - 1
  /\ request["s1"].lastMessage = ToolMessage("Error: Node")
  /\ request["s1"].invalidRun = 1
  /\ request["s2"].invalidRun = 1

\* C37: the step of create_workflow that finds the draft valid sets the
\* counter to 0 and only then calls the runtime, so the counter is 0 while
\* the creation is in flight; when the creation fails the counter is still
\* 0: the failed creation is not counted.
C37_Step ==
  \A s \in Sessions :
    /\ (SubmitsDraft(s) /\ request'[s].pc = "runtime") =>
         /\ workflowValidationFailures' = 0
         /\ request[s].outbox = NoCall
         /\ request'[s].outbox.op = "create"
    /\ (/\ s \in clients
        /\ request[s].pc = "runtime"
        /\ request[s].outbox.op = "create"
        /\ request'[s].pc # "runtime") =>
         /\ workflowValidationFailures = 0
         /\ workflowValidationFailures' = 0

C39_PayloadIdsDistinct ==
  (mergeStep = "merged" /\ Has(payload, "nodes")) =>
    \A i, j \in 1..Len(payload.nodes) :
      i # j => payload.nodes[i].id # payload.nodes[j].id

(***************************************************************************)
(* Claims about the snapshot of the build.                                 *)
(***************************************************************************)
\* C40: every snapshot the build produces is consistent: totalNodes is the
\* number of entries of the type mapping, the trigger list holds exactly
\* the types whose entry has the trigger flag, each once, and every alias
\* maps to a type of the mapping; also when two scanned nodes yield the
\* same type identifier.
C40_SnapshotConsistent ==
  buildStep = "built" =>
    /\ snapshot.totalNodes = Cardinality(DOMAIN snapshot.nodes)
    /\ Range(snapshot.triggerNodes) = { t \in DOMAIN snapshot.nodes : snapshot.nodes[t].isTrigger }
    /\ \A i, j \in 1..Len(snapshot.triggerNodes) :
         i # j => snapshot.triggerNodes[i] # snapshot.triggerNodes[j]
    /\ \A a \in DOMAIN snapshot.aliases : snapshot.aliases[a] \in DOMAIN snapshot.nodes

====
